---- MODULE Spec2Model ----
(***************************************************************************)
(* Model of bono-core: the conversation orchestrator Agent.Chat            *)
(* (src/agent.go), the shell executors and the denial classifier           *)
(* (src/sandbox.go) and the fallback negotiation (src/config.go).          *)
(*                                                                         *)
(* Go strings that the code inspects (process output, message text) are    *)
(* sequences of one-character strings, so that strings.Contains,           *)
(* strings.ToLower and len are computed, not assumed.  Command strings,    *)
(* tool names and call ids are only compared for equality and are TLA+     *)
(* strings.                                                                *)
(***************************************************************************)
EXTENDS Integers, Sequences, FiniteSets, TLC

(***************************************************************************)
(* Program constants and bounds of the model.                              *)
(***************************************************************************)
maxChatTurns == 10

\* Most fragments a process output is put together from.
MaxFrags == 2
\* Most paths in one path list of a sandbox configuration.
MaxPaths == 2
\* Largest tool-call batch the model returns in one assistant message.
MaxBatch == 3
\* Chat calls the caller makes in a steady run.
MaxChats == 2
\* Requests the model answers in a varied run.
MaxRequests == 3

(***************************************************************************)
(* Strings.                                                                *)
(***************************************************************************)
sEmpty == << >>
sSandbox == <<"s", "a", "n", "d", "b", "o", "x">>
sDeny == <<"d", "e", "n", "y">>
sOperationNotPermitted == <<"o", "p", "e", "r", "a", "t", "i", "o", "n", " ", "n", "o", "t", " ", "p", "e", "r", "m", "i", "t", "t", "e", "d">>
sPermissionDenied == <<"p", "e", "r", "m", "i", "s", "s", "i", "o", "n", " ", "d", "e", "n", "i", "e", "d">>
sNotPermitted == <<"n", "o", "t", " ", "p", "e", "r", "m", "i", "t", "t", "e", "d">>
sNetwork == <<"n", "e", "t", "w", "o", "r", "k">>
sWrite == <<"w", "r", "i", "t", "e">>
sExec == <<"e", "x", "e", "c">>
sRead == <<"r", "e", "a", "d">>
sDots == <<".", ".", ".">>
sCancelledByUser == <<"c", "a", "n", "c", "e", "l", "l", "e", "d", " ", "b", "y", " ", "u", "s", "e", "r">>
rNetwork == <<"n", "e", "t", "w", "o", "r", "k", " ", "a", "c", "c", "e", "s", "s", " ", "d", "e", "n", "i", "e", "d">>
rWrite == <<"w", "r", "i", "t", "e", " ", "a", "c", "c", "e", "s", "s", " ", "d", "e", "n", "i", "e", "d">>
rExec == <<"e", "x", "e", "c", "u", "t", "i", "o", "n", " ", "d", "e", "n", "i", "e", "d">>
rRead == <<"r", "e", "a", "d", " ", "a", "c", "c", "e", "s", "s", " ", "d", "e", "n", "i", "e", "d">>
rPolicy == <<"s", "a", "n", "d", "b", "o", "x", " ", "p", "o", "l", "i", "c", "y", " ", "v", "i", "o", "l", "a", "t", "i", "o", "n">>

\* Outputs a child process may print.
outHello == <<"h", "e", "l", "l", "o">>
outOpNotPermitted == <<"O", "p", "e", "r", "a", "t", "i", "o", "n", " ", "n", "o", "t", " ", "p", "e", "r", "m", "i", "t", "t", "e", "d">>
outSandboxDeny == <<"S", "a", "n", "d", "b", "o", "x", ":", " ", "d", "e", "n", "y", " ", "f", "s">>
outPermDenied == <<"s", "h", ":", " ", "P", "e", "r", "m", "i", "s", "s", "i", "o", "n", " ", "d", "e", "n", "i", "e", "d">>
outNotFound == <<"n", "o", "t", " ", "f", "o", "u", "n", "d">>
outData == <<"d", "a", "t", "a">>
txtDone == <<"d", "o", "n", "e">>
txtHi == <<"h", "i">>

UpperChars == <<"A", "B", "C", "D", "E", "F", "G", "H", "I", "J", "K", "L", "M", "N", "O", "P", "Q", "R", "S", "T", "U", "V", "W", "X", "Y", "Z">>
LowerChars == <<"a", "b", "c", "d", "e", "f", "g", "h", "i", "j", "k", "l", "m", "n", "o", "p", "q", "r", "s", "t", "u", "v", "w", "x", "y", "z">>

\* strings.ToLower on one character.
ToLowerChar(c) ==
    IF \E i \in 1..Len(UpperChars) : UpperChars[i] = c
    THEN LowerChars[CHOOSE i \in 1..Len(UpperChars) : UpperChars[i] = c]
    ELSE c

\* strings.ToLower
ToLower(s) == [i \in 1..Len(s) |-> ToLowerChar(s[i])]

\* strings.Contains
Contains(s, sub) ==
    \E i \in 0..(Len(s) - Len(sub)) : SubSeq(s, i + 1, i + Len(sub)) = sub

(***************************************************************************)
(* Shell executors (src/sandbox.go).                                       *)
(*                                                                         *)
(* The outcome of a child process is a record                              *)
(*   [err |-> "nil" | "exit" | "other", code |-> exit code, out |-> text]  *)
(* err = "nil": CombinedOutput returned no error; "exit": *exec.ExitError  *)
(* with the exit code; "other": any other error (the process did not       *)
(* start).  A ToolResult's Status carries the elapsed seconds in the code; *)
(* the model keeps its fixed prefix.  ExecMeta is a pointer in ToolResult: *)
(* IsNil tells a result without metadata.                                  *)
(***************************************************************************)
NoMeta == [IsNil |-> TRUE, Sandboxed |-> FALSE, SandboxError |-> FALSE, SandboxReason |-> sEmpty]

ExecMeta(sandboxed, sandboxError, reason) ==
    [IsNil |-> FALSE, Sandboxed |-> sandboxed, SandboxError |-> sandboxError, SandboxReason |-> reason]

ToolResult(success, output, status, error, meta) ==
    [Success |-> success, Output |-> output, Status |-> status, Error |-> error, ExecMeta |-> meta]

\* The error value of a failed process, as ToolResult.Error keeps it.
ProcError(p) == IF p.err = "exit" THEN <<"exit", p.code>> ELSE <<p.err, 0>>
NilError == <<"nil", 0>>

\* A classifier that compares without folding the case.
isSandboxDenialCaseSensitive(output, p) ==
    LET lower == output IN
    IF Contains(lower, sSandbox) /\ Contains(lower, sDeny) THEN TRUE
    ELSE IF Contains(lower, sOperationNotPermitted) THEN TRUE
    ELSE IF p.err = "exit" /\ p.code = 1
            /\ (Contains(lower, sPermissionDenied) \/ Contains(lower, sNotPermitted)) THEN TRUE
    ELSE FALSE

\* A classifier that takes every exit code 1 for a denial.
isSandboxDenialAnyExitOne(output, p) ==
    LET lower == ToLower(output) IN
    IF Contains(lower, sSandbox) /\ Contains(lower, sDeny) THEN TRUE
    ELSE IF Contains(lower, sOperationNotPermitted) THEN TRUE
    ELSE IF p.err = "exit" /\ p.code = 1 THEN TRUE
    ELSE FALSE

\* A classifier that accepts every nonzero exit code in its third rule.
isSandboxDenialAnyExitCode(output, p) ==
    LET lower == ToLower(output) IN
    IF Contains(lower, sSandbox) /\ Contains(lower, sDeny) THEN TRUE
    ELSE IF Contains(lower, sOperationNotPermitted) THEN TRUE
    ELSE IF p.err = "exit" /\ p.code # 0
            /\ (Contains(lower, sPermissionDenied) \/ Contains(lower, sNotPermitted)) THEN TRUE
    ELSE FALSE

\* A classifier that takes every failed run for a denial, whatever it printed.
isSandboxDenialAnyFailure(output, p) == TRUE

isSandboxDenial(output, p) ==
    LET lower == ToLower(output) IN
    IF Contains(lower, sSandbox) /\ Contains(lower, sDeny) THEN TRUE
    ELSE IF Contains(lower, sOperationNotPermitted) THEN TRUE
    ELSE IF p.err = "exit" /\ p.code = 1
            /\ (Contains(lower, sPermissionDenied) \/ Contains(lower, sNotPermitted)) THEN TRUE
    ELSE FALSE

\* The length above which extractSandboxReason cuts the output.
ReasonCut == 100

\* A reason extraction that looks for "write" before "network".
extractSandboxReasonWriteFirst(output) ==
    LET lower == ToLower(output) IN
    IF Contains(lower, sWrite) \/ Contains(lower, sPermissionDenied) THEN rWrite
    ELSE IF Contains(lower, sNetwork) THEN rNetwork
    ELSE IF Contains(lower, sExec) THEN rExec
    ELSE IF Contains(lower, sRead) THEN rRead
    ELSE IF Len(output) > ReasonCut THEN SubSeq(output, 1, ReasonCut) \o sDots
    ELSE IF output # sEmpty THEN output
    ELSE rPolicy

extractSandboxReason(output) ==
    LET lower == ToLower(output) IN
    IF Contains(lower, sNetwork) THEN rNetwork
    ELSE IF Contains(lower, sWrite) \/ Contains(lower, sPermissionDenied) THEN rWrite
    ELSE IF Contains(lower, sExec) THEN rExec
    ELSE IF Contains(lower, sRead) THEN rRead
    ELSE IF Len(output) > ReasonCut THEN SubSeq(output, 1, ReasonCut) \o sDots
    ELSE IF output # sEmpty THEN output
    ELSE rPolicy

\* A Run that classifies the output before it looks at the error.
SandboxedRunClassifyFirst(command, p) ==
    IF isSandboxDenial(p.out, p)
    THEN ToolResult(FALSE, p.out, "sandbox blocked", ProcError(p),
                    ExecMeta(TRUE, TRUE, extractSandboxReason(p.out)))
    ELSE IF p.err # "nil"
    THEN ToolResult(FALSE, p.out, "fail", ProcError(p), ExecMeta(TRUE, FALSE, sEmpty))
    ELSE ToolResult(TRUE, p.out, "ok", NilError, ExecMeta(TRUE, FALSE, sEmpty))

\* SandboxedExecutor.Run on a process that ended as p.
SandboxedRun(command, p) ==
    IF p.err # "nil"
    THEN IF isSandboxDenial(p.out, p)
         THEN ToolResult(FALSE, p.out, "sandbox blocked", ProcError(p),
                         ExecMeta(TRUE, TRUE, extractSandboxReason(p.out)))
         ELSE ToolResult(FALSE, p.out, "fail", ProcError(p), ExecMeta(TRUE, FALSE, sEmpty))
    ELSE ToolResult(TRUE, p.out, "ok", NilError, ExecMeta(TRUE, FALSE, sEmpty))

\* A passthrough Run that classifies failures as the sandboxed one does.
PassthroughRunClassifying(command, p) ==
    IF p.err # "nil"
    THEN IF isSandboxDenial(p.out, p)
         THEN ToolResult(FALSE, p.out, "sandbox blocked", ProcError(p),
                         ExecMeta(FALSE, TRUE, extractSandboxReason(p.out)))
         ELSE ToolResult(FALSE, p.out, "fail", ProcError(p), ExecMeta(FALSE, FALSE, sEmpty))
    ELSE ToolResult(TRUE, p.out, "ok", NilError, ExecMeta(FALSE, FALSE, sEmpty))

\* PassthroughExecutor.Run on a process that ended as p.
PassthroughRun(command, p) ==
    IF p.err # "nil"
    THEN ToolResult(FALSE, p.out, "fail", ProcError(p), ExecMeta(FALSE, FALSE, sEmpty))
    ELSE ToolResult(TRUE, p.out, "ok", NilError, ExecMeta(FALSE, FALSE, sEmpty))

\* A NewShellExecutor that trusts the configuration without the platform check.
NewShellExecutorUnchecked(enabled, available) ==
    IF enabled THEN "sandboxed" ELSE "passthrough"

\* NewShellExecutor: the kind of executor built for a configuration on a platform.
NewShellExecutor(enabled, available) ==
    IF enabled /\ available THEN "sandboxed" ELSE "passthrough"

(***************************************************************************)
(* Running a command (src/config.go).  A world w tells what the processes  *)
(* and the callback of one call do:                                        *)
(*   w.confined    outcome of the process under sandbox-exec               *)
(*   w.unconfined  outcome of the process under plain sh                   *)
(*   w.approve     what the fallback callback answers when it is asked     *)
(* Each operator returns the ToolResult and the log of what it did: the    *)
(* processes started ("sandbox-exec", "sh", with the command text given    *)
(* to them) and the callbacks invoked.                                     *)
(***************************************************************************)
Outcome(result, log) == [result |-> result, log |-> log]

Started(how, command) == [ev |-> how, command |-> command, reason |-> sEmpty]
Asked(hook, command, reason) == [ev |-> hook, command |-> command, reason |-> reason]

\* Executor.Run of the executor kind exec (ExecuteShell is GetExecutor().Run).
ExecuteShell(exec, command, w) ==
    IF exec = "sandboxed"
    THEN Outcome(SandboxedRun(command, w.confined), <<Started("sandbox-exec", command)>>)
    ELSE Outcome(PassthroughRun(command, w.unconfined), <<Started("sh", command)>>)

\* A fallback that goes through the configured executor again.
ExecuteShellUnsandboxedViaExecutor(command, w) ==
    Outcome(SandboxedRun(command, w.confined), <<Started("sandbox-exec", command)>>)

ExecuteShellUnsandboxed(command, w) ==
    Outcome(PassthroughRun(command, w.unconfined), <<Started("sh", command)>>)

\* A variant that asks the fallback callback after every failed confined
\* run, a denial or not.
ExecuteShellWithSandboxAskOnFailure(exec, command, onFallback, w) ==
    IF exec # "sandboxed"
    THEN ExecuteShellUnsandboxed(command, w)
    ELSE LET first == ExecuteShell(exec, command, w)
             result == first.result
         IN IF ~result.Success
            THEN IF onFallback # "nil"
                 THEN LET asked == first.log \o
                                   <<Asked("OnSandboxFallback", command, result.ExecMeta.SandboxReason)>>
                      IN IF w.approve
                         THEN LET second == ExecuteShellUnsandboxed(command, w)
                              IN Outcome(second.result, asked \o second.log)
                         ELSE Outcome(result, asked)
                 ELSE first
            ELSE first

\* ExecuteShellWithSandbox(command, onFallback) with the process-wide executor
\* exec; onFallback is "nil" or "set".
ExecuteShellWithSandbox(exec, command, onFallback, w) ==
    IF exec # "sandboxed"
    THEN ExecuteShellUnsandboxed(command, w)
    ELSE LET first == ExecuteShell(exec, command, w)
             result == first.result
         IN IF ~result.ExecMeta.IsNil /\ result.ExecMeta.SandboxError
            THEN IF onFallback # "nil"
                 THEN LET asked == first.log \o
                                   <<Asked("OnSandboxFallback", command, result.ExecMeta.SandboxReason)>>
                      IN IF w.approve
                         THEN LET second == ExecuteShellUnsandboxed(command, w)
                              IN Outcome(second.result, asked \o second.log)
                         ELSE Outcome(result, asked)
                 ELSE first
            ELSE first

\* The result the code builds when a callback declines.
CancelledResult == ToolResult(FALSE, sCancelledByUser, "cancelled", NilError, NoMeta)

\* DefaultSandboxConfig().FallbackOutsideSandbox
DefaultFallbackOutsideSandbox == TRUE

\* A variant that runs the command before it asks when the sandbox is off.
AgentExecuteShellWithSandboxRunFirst(exec, command, cfgFallback, onFallback, onSubagentToolCall, w) ==
    IF exec = "sandboxed"
    THEN LET first == ExecuteShell(exec, command, w)
             result == first.result
         IN IF ~result.ExecMeta.IsNil /\ result.ExecMeta.SandboxError
            THEN IF (cfgFallback \/ DefaultFallbackOutsideSandbox) /\ onFallback # "nil"
                 THEN LET asked == first.log \o
                                   <<Asked("OnSandboxFallback", command, result.ExecMeta.SandboxReason)>>
                      IN IF ~w.approve
                         THEN Outcome(CancelledResult, asked)
                         ELSE LET second == ExecuteShellUnsandboxed(command, w)
                              IN Outcome(second.result, asked \o second.log)
                 ELSE first
            ELSE IF onSubagentToolCall # "nil"
                 THEN Outcome(result, first.log \o <<Asked("OnSubagentToolCall", command, sEmpty)>>)
                 ELSE first
    ELSE LET run == ExecuteShellUnsandboxed(command, w)
         IN IF onSubagentToolCall # "nil"
            THEN LET asked == run.log \o <<Asked("OnSubagentToolCall", command, sEmpty)>>
                 IN IF ~w.allow THEN Outcome(CancelledResult, asked) ELSE Outcome(run.result, asked)
            ELSE run

\* Agent.executeShellWithSandbox(command, args) of the subagent variant of
\* the agent; cfgFallback is config.Sandbox.FallbackOutsideSandbox,
\* onSubagentToolCall is "nil" or "set" and w.allow is what it answers.
AgentExecuteShellWithSandbox(exec, command, cfgFallback, onFallback, onSubagentToolCall, w) ==
    IF exec = "sandboxed"
    THEN LET first == ExecuteShell(exec, command, w)
             result == first.result
         IN IF ~result.ExecMeta.IsNil /\ result.ExecMeta.SandboxError
            THEN IF (cfgFallback \/ DefaultFallbackOutsideSandbox) /\ onFallback # "nil"
                 THEN LET asked == first.log \o
                                   <<Asked("OnSandboxFallback", command, result.ExecMeta.SandboxReason)>>
                      IN IF ~w.approve
                         THEN Outcome(CancelledResult, asked)
                         ELSE LET second == ExecuteShellUnsandboxed(command, w)
                              IN Outcome(second.result, asked \o second.log)
                 ELSE first
            ELSE IF onSubagentToolCall # "nil"
                 THEN Outcome(result, first.log \o <<Asked("OnSubagentToolCall", command, sEmpty)>>)
                 ELSE first
    ELSE IF onSubagentToolCall # "nil"
         THEN LET asked == <<Asked("OnSubagentToolCall", command, sEmpty)>>
              IN IF ~w.allow
                 THEN Outcome(CancelledResult, asked)
                 ELSE LET run == ExecuteShellUnsandboxed(command, w)
                      IN Outcome(run.result, asked \o run.log)
         ELSE ExecuteShellUnsandboxed(command, w)

(***************************************************************************)
(* Tools other than run_shell (src/config.go).  The file tools are plain   *)
(* I/O: w.file tells whether the file operation succeeds.                  *)
(***************************************************************************)
FileTools == {"read_file", "write_file", "edit_file"}

ExecuteTool(name, w) ==
    IF name \in FileTools
    THEN IF w.file
         THEN ToolResult(TRUE, outData, "ok", NilError, NoMeta)
         ELSE ToolResult(FALSE, sEmpty, "fail", <<"other", 0>>, NoMeta)
    ELSE ToolResult(FALSE, sEmpty, "fail: unknown tool", <<"other", 0>>, NoMeta)

(***************************************************************************)
(* Messages (src/types.go) and messageContent (src/agent.go).              *)
(* Content is `any` in the code: a string, a list of typed parts, or       *)
(* something else (absent, a number, ...).                                 *)
(***************************************************************************)
Str(text) == [kind |-> "string", text |-> text, parts |-> << >>]
Parts(parts) == [kind |-> "parts", text |-> sEmpty, parts |-> parts]
OtherContent == [kind |-> "other", text |-> sEmpty, parts |-> << >>]
Part(type, text) == [type |-> type, text |-> text]

NoId == << >>
Message(role, content, toolCalls, toolCallId) ==
    [role |-> role, content |-> content, toolCalls |-> toolCalls, toolCallId |-> toolCallId]

RECURSIVE JoinText(_)
JoinText(parts) ==
    IF parts = << >> THEN sEmpty
    ELSE LET p == Head(parts)
         IN (IF p.type \in {"text", "output_text"} THEN p.text ELSE sEmpty)
            \o JoinText(Tail(parts))

\* A variant that joins the text of every part, whatever its type.
messageContentAllParts(msg) ==
    IF msg = [nil |-> TRUE] THEN sEmpty
    ELSE IF msg.content.kind = "string" THEN msg.content.text
    ELSE IF msg.content.kind = "parts"
    THEN JoinText([i \in 1..Len(msg.content.parts) |-> Part("text", msg.content.parts[i].text)])
    ELSE sEmpty

\* messageContent; a nil message is the record [nil |-> TRUE].  A part that
\* is not a map, or whose type or text is not a string, is a part with the
\* empty type or the empty text.
messageContent(msg) ==
    IF msg = [nil |-> TRUE] THEN sEmpty
    ELSE IF msg.content.kind = "string" THEN msg.content.text
    ELSE IF msg.content.kind = "parts" THEN JoinText(msg.content.parts)
    ELSE sEmpty

VARIABLES
    platform,         \* sandboxAvailable(): darwin with sandbox-exec on the PATH
    defaultExecutor,  \* sandbox.go: the process-wide executor: "nil", "sandboxed", "passthrough"
    hooks,            \* which optional hooks of the Agent are set
    env,              \* the kind of run: "steady" or "varied"
    msgs,             \* Agent.msgs
    msg,              \* the assistant message of the current turn
    pc,               \* where Chat is: "idle", "await" (in ChatCompletion), "tools"
    turns,            \* the loop counter of Chat
    idx,              \* index of the next tool call of the batch
    toolResults,      \* the pending tool-role messages of the batch
    ret,              \* what the last Chat call returned
    hist,             \* the history when the current turn began
    trips,            \* ChatCompletion calls made by the current Chat call
    evlog,            \* hooks called and tools run for the current batch
    chats,            \* Chat calls made so far
    requests,         \* ChatCompletion calls made in the run
    shIn,             \* one call of a shell function: its inputs
    shOut,            \* and what it returned and did
    pre               \* the pre-tasks: configuration, preTasksDone and the running task

agentVars == <<hooks, env, msgs, msg, pc, turns, idx, toolResults, ret, hist, trips, evlog, chats, requests,
               pre>>
shellVars == <<shIn, shOut>>
vars == <<platform, defaultExecutor, hooks, env, msgs, msg, pc, turns, idx, toolResults, ret, hist, trips, evlog,
          chats, requests, shIn, shOut, pre>>

(***************************************************************************)
(* The collaborators of a conversation.                                    *)
(*                                                                         *)
(* A run is "steady" or "varied".  In a steady run the model answers every *)
(* request with the same one-call batch and never stops asking, and every  *)
(* command succeeds.  In a varied run the model answers with any text, any *)
(* content shape or any batch of up to MaxBatch calls, or fails, commands  *)
(* succeed or are blocked, and the model answers MaxRequests requests: it  *)
(* asks for tools only while a further request can be answered.            *)
(* The arguments of a call are the JSON payload: valid tells whether it    *)
(* decodes, command is its "command" member.                               *)
(***************************************************************************)
CallOptions ==
    << [name |-> "run_shell", valid |-> TRUE, command |-> "touch /x"],
       [name |-> "read_file", valid |-> TRUE, command |-> ""],
       [name |-> "nope", valid |-> TRUE, command |-> ""],
       [name |-> "run_shell", valid |-> FALSE, command |-> "ls"] >>

\* The batch of n calls the model asks for in the assistant message at
\* position at of the history: n options in turn, from an option that
\* depends on the position; the call ids are unique.
Batch(at, n) ==
    [i \in 1..n |->
        LET o == CallOptions[((at + i) % Len(CallOptions)) + 1]
        IN [id |-> <<at, i>>, name |-> o.name,
            arguments |-> [valid |-> o.valid, command |-> o.command]]]

TerminalContents ==
    { Str(txtDone), OtherContent,
      Parts(<<Part("text", txtHi), Part("image_url", txtDone), Part("output_text", txtDone)>>) }

\* The assistant messages the model may answer with when the history has at - 1 messages.
Responses(at) ==
    IF env = "steady"
    THEN { Message("assistant", OtherContent, Batch(at, 1), NoId) }
    ELSE { Message("assistant", c, << >>, NoId) : c \in TerminalContents }
         \cup (IF requests < MaxRequests
               THEN { Message("assistant", OtherContent, Batch(at, n), NoId) : n \in 1..MaxBatch }
               ELSE {})

\* What the processes, the file system and the fallback callback do for one call.
Succeeds == [err |-> "nil", code |-> 0, out |-> outHello]
Blocked == [err |-> "exit", code |-> 1, out |-> outOpNotPermitted]
ChatWorlds ==
    IF env = "steady"
    THEN [confined : {Succeeds}, unconfined : {Succeeds},
          approve : {TRUE}, allow : {TRUE}, file : {TRUE}]
    ELSE [confined : {Succeeds, Blocked}, unconfined : {Succeeds},
          approve : BOOLEAN, allow : {TRUE}, file : BOOLEAN]

\* json.Unmarshal into args and args["command"].(string): a payload that
\* does not decode leaves the mapping empty.
DecodeCommand(arguments) == IF arguments.valid THEN arguments.command ELSE ""

(***************************************************************************)
(* Agent.Chat (src/agent.go).  One action runs the handler from one        *)
(* blocking call to the next.                                              *)
(***************************************************************************)
Ret(kind, answer, err) == [kind |-> kind, answer |-> answer, err |-> err]
NoRet == Ret("none", sEmpty, "nil")

Ev(what, i, ok) == [ev |-> what, call |-> i, ok |-> ok]

\* The batch being processed: the tool calls of the assistant message.
batch == msg.toolCalls

\* The value of msg before the first response.
NoMsg == Message("", OtherContent, << >>, NoId)

\* A return that does not check for an empty text.
TerminalReturnNoCheck(content) == Ret("answer", content, "nil")

\* An agent without pre-tasks: Config.PreTasks is empty and preTasksDone is
\* false; no task is running.
NoPre == [tasks |-> << >>, done |-> FALSE, task |-> 0, msgs |-> << >>, turns |-> 0, log |-> << >>,
          err |-> << >>, calls |-> << >>]

\* What Chat returns for an assistant message without tool calls.
TerminalReturn(content) ==
    IF content = sEmpty
    THEN Ret("empty", sEmpty, "ErrEmptyResponse")
    ELSE Ret("answer", content, "nil")

\* A cancellation reported as an error, as runPreTasks reports it.
CancelReturnError == Ret("cancelled", sEmpty, "ErrToolCancelled")

\* What Chat returns after a declined call.
CancelReturn == Ret("cancelled", sEmpty, "nil")

\* An append that keeps only the last pending message.
FlushLast(h, results) == Append(h, results[Len(results)])

\* The history with the pending tool-role messages appended.
Flush(h, results) == h \o results

\* A turn cap that is off by one (turns > maxChatTurns).
EnterTurnOffByOne(h, t) ==
    /\ msgs' = h
    /\ turns' = t
    /\ IF t > maxChatTurns
       THEN /\ pc' = "idle"
            /\ ret' = Ret("maxturns", sEmpty, "ErrMaxTurnsExceeded")
            /\ UNCHANGED <<hist, trips, requests>>
       ELSE /\ pc' = "await"
            /\ ret' = NoRet
            /\ hist' = h
            /\ trips' = IF t = 0 THEN 1 ELSE trips + 1
            /\ requests' = requests + 1

\* A turn loop that tests the cap before it appends the results of the
\* last batch.
EnterTurnCapFirst(h, t) ==
    /\ msgs' = (IF t >= maxChatTurns THEN msgs ELSE h)
    /\ turns' = t
    /\ IF t >= maxChatTurns
       THEN /\ pc' = "idle"
            /\ ret' = Ret("maxturns", sEmpty, "ErrMaxTurnsExceeded")
            /\ UNCHANGED <<hist, trips, requests>>
       ELSE /\ pc' = "await"
            /\ ret' = NoRet
            /\ hist' = h
            /\ trips' = IF t = 0 THEN 1 ELSE trips + 1
            /\ requests' = requests + 1

\* The top of the turn loop with history h after t turns: the turn cap, or
\* the next ChatCompletion call.
EnterTurn(h, t) ==
    /\ msgs' = h
    /\ turns' = t
    /\ IF t >= maxChatTurns
       THEN /\ pc' = "idle"
            /\ ret' = Ret("maxturns", sEmpty, "ErrMaxTurnsExceeded")
            /\ UNCHANGED <<hist, trips, requests>>
       ELSE /\ pc' = "await"
            /\ ret' = NoRet
            /\ hist' = h
            /\ trips' = IF t = 0 THEN 1 ELSE trips + 1
            /\ requests' = requests + 1

ChatStart ==
    /\ pc = "idle"
    /\ pre.done \/ pre.tasks = << >>
    /\ IF env = "steady" THEN chats < MaxChats ELSE requests < MaxRequests
    /\ chats' = chats + 1
    /\ EnterTurn(Append(msgs, Message("user", Str(txtHi), << >>, NoId)), 0)
    /\ idx' = 1
    /\ toolResults' = << >>
    /\ evlog' = << >>
    /\ UNCHANGED <<platform, defaultExecutor, hooks, env, pre, msg, shellVars>>

\* A variant that takes the last message off the history when the
\* round-trip fails.
ModelErrorRollback ==
    /\ pc = "await"
    /\ env = "varied"
    /\ pc' = "idle"
    /\ ret' = Ret("error", sEmpty, "transport")
    /\ msgs' = SubSeq(msgs, 1, Len(msgs) - 1)
    /\ UNCHANGED <<platform, defaultExecutor, hooks, env, pre, msg, turns, idx, toolResults,
                   hist, trips, evlog, chats, requests, shellVars>>

ModelError ==
    /\ pc = "await"
    /\ env = "varied"
    /\ pc' = "idle"
    /\ ret' = Ret("error", sEmpty, "transport")
    /\ UNCHANGED <<platform, defaultExecutor, hooks, env, pre, msgs, msg, turns, idx, toolResults,
                   hist, trips, evlog, chats, requests, shellVars>>

ModelRespond ==
    /\ pc = "await"
    /\ \E m \in Responses(Len(msgs) + 1) :
        LET content == messageContent(m) IN
        /\ msg' = m
        /\ msgs' = Append(msgs, m)
        /\ IF Len(m.toolCalls) = 0
           THEN /\ pc' = "idle"
                /\ ret' = TerminalReturn(content)
           ELSE /\ pc' = "tools"
                /\ ret' = ret
    /\ idx' = 1
    /\ toolResults' = << >>
    /\ evlog' = << >>
    /\ UNCHANGED <<platform, defaultExecutor, hooks, env, pre, turns, hist, trips, chats, requests,
                   shellVars>>

\* A decline that returns without removing the assistant message.
ToolDeclineNoRollback ==
    /\ pc = "tools"
    /\ hooks.OnToolCall
    /\ evlog' = Append(evlog, Ev("OnToolCall", idx, FALSE))
    /\ msgs' = msgs
    /\ pc' = "idle"
    /\ ret' = CancelReturn
    /\ UNCHANGED <<platform, defaultExecutor, hooks, env, pre, msg, turns, idx, toolResults, hist, trips,
                   chats, requests, shellVars>>

\* A decline that removes the assistant message but appends the results
\* collected before the declined call.
ToolDeclineFlush ==
    /\ pc = "tools"
    /\ hooks.OnToolCall
    /\ evlog' = Append(evlog, Ev("OnToolCall", idx, FALSE))
    /\ msgs' = SubSeq(msgs, 1, Len(msgs) - 1) \o toolResults
    /\ pc' = "idle"
    /\ ret' = CancelReturn
    /\ UNCHANGED <<platform, defaultExecutor, hooks, env, pre, msg, turns, idx, toolResults, hist, trips,
                   chats, requests, shellVars>>

\* OnToolCall declines call idx: the loop breaks, the assistant message is
\* removed and Chat returns.
\* A rollback that, in the first turn of a call, takes the user input off
\* the history as well.
ToolDeclineRollbackInput ==
    /\ pc = "tools"
    /\ hooks.OnToolCall
    /\ evlog' = Append(evlog, Ev("OnToolCall", idx, FALSE))
    /\ msgs' = SubSeq(msgs, 1, Len(msgs) - (IF turns = 0 THEN 2 ELSE 1))
    /\ pc' = "idle"
    /\ ret' = CancelReturn
    /\ UNCHANGED <<platform, defaultExecutor, hooks, env, pre, msg, turns, idx, toolResults, hist, trips,
                   chats, requests, shellVars>>

ToolDecline ==
    /\ pc = "tools"
    /\ hooks.OnToolCall
    /\ evlog' = Append(evlog, Ev("OnToolCall", idx, FALSE))
    /\ msgs' = SubSeq(msgs, 1, Len(msgs) - 1)
    /\ pc' = "idle"
    /\ ret' = CancelReturn
    /\ UNCHANGED <<platform, defaultExecutor, hooks, env, pre, msg, turns, idx, toolResults, hist, trips,
                   chats, requests, shellVars>>

\* A variant that does not dispatch a call with a malformed payload.
RunToolRejectMalformed(tc, w) ==
    IF ~tc.arguments.valid
    THEN CancelledResult
    ELSE IF tc.name = "run_shell"
    THEN ExecuteShellWithSandbox(defaultExecutor, DecodeCommand(tc.arguments),
                                 hooks.OnSandboxFallback, w).result
    ELSE ExecuteTool(tc.name, w)

\* The result of tool call tc in world w.
RunTool(tc, w) ==
    IF tc.name = "run_shell"
    THEN ExecuteShellWithSandbox(defaultExecutor, DecodeCommand(tc.arguments),
                                 hooks.OnSandboxFallback, w).result
    ELSE ExecuteTool(tc.name, w)

\* A loop body that runs the tool before it asks OnToolCall.
RunEventsHookAfter(i) ==
    <<Ev("exec", i, TRUE)>>
    \o (IF hooks.OnToolCall THEN <<Ev("OnToolCall", i, TRUE)>> ELSE << >>)
    \o (IF hooks.OnToolDone THEN <<Ev("OnToolDone", i, TRUE)>> ELSE << >>)

\* A loop body that does not call OnToolDone.
RunEventsNoDone(i) ==
    (IF hooks.OnToolCall THEN <<Ev("OnToolCall", i, TRUE)>> ELSE << >>)
    \o <<Ev("exec", i, TRUE)>>

\* What the loop body logs for an executed call.
RunEvents(i) ==
    (IF hooks.OnToolCall THEN <<Ev("OnToolCall", i, TRUE)>> ELSE << >>)
    \o <<Ev("exec", i, TRUE)>>
    \o (IF hooks.OnToolDone THEN <<Ev("OnToolDone", i, TRUE)>> ELSE << >>)

\* A tool-role message without the id of its call.
ToolMessageNoId(tc, r) == Message("tool", Str(r.Output), << >>, NoId)

\* The tool-role message of call tc with result r.
ToolMessage(tc, r) == Message("tool", Str(r.Output), << >>, tc.id)

\* A variant that makes a model round-trip between two calls of a batch.
ToolRunMoreRoundTrip ==
    /\ pc = "tools"
    /\ idx < Len(batch)
    /\ \E w \in ChatWorlds :
        toolResults' = Append(toolResults, ToolMessage(batch[idx], RunTool(batch[idx], w)))
    /\ evlog' = evlog \o RunEvents(idx)
    /\ idx' = idx + 1
    /\ trips' = trips + 1
    /\ requests' = requests + 1
    /\ UNCHANGED <<platform, defaultExecutor, hooks, env, pre, msgs, msg, pc, turns, ret, hist,
                   chats, shellVars>>

\* OnToolCall is nil or approves call idx: the tool runs, OnToolDone is
\* called and the result is kept pending.
ToolRunMore ==
    /\ pc = "tools"
    /\ idx < Len(batch)
    /\ \E w \in ChatWorlds :
        toolResults' = Append(toolResults, ToolMessage(batch[idx], RunTool(batch[idx], w)))
    /\ evlog' = evlog \o RunEvents(idx)
    /\ idx' = idx + 1
    /\ UNCHANGED <<platform, defaultExecutor, hooks, env, pre, msgs, msg, pc, turns, ret, hist,
                   trips, chats, requests, shellVars>>

\* The same for the last call of the batch: the pending results are appended
\* and the loop goes to its next turn.
ToolRunLast ==
    /\ pc = "tools"
    /\ idx = Len(batch)
    /\ \E w \in ChatWorlds :
        /\ toolResults' = Append(toolResults, ToolMessage(batch[idx], RunTool(batch[idx], w)))
        /\ EnterTurn(Flush(msgs, toolResults'), turns + 1)
    /\ evlog' = evlog \o RunEvents(idx)
    /\ idx' = idx + 1
    /\ UNCHANGED <<platform, defaultExecutor, hooks, env, pre, msg, chats, shellVars>>

(***************************************************************************)
(* NewAgent: the configuration is validated, the process-wide executor is  *)
(* built and the history holds the system prompt if one is configured.     *)
(***************************************************************************)
HookConfigs ==
    { [OnToolCall |-> FALSE, OnToolDone |-> FALSE, OnSandboxFallback |-> "nil"],
      [OnToolCall |-> TRUE, OnToolDone |-> TRUE, OnSandboxFallback |-> "set"] }

NoShIn == [fn |-> "none"]
NoShOut == [called |-> FALSE]

\* The history of a new agent with a system prompt.
NewHistory == <<Message("system", Str(txtHi), << >>, NoId)>>

NewAgent(PreTasks) ==
    /\ platform \in BOOLEAN
    /\ defaultExecutor = NewShellExecutor(platform, platform)
    /\ hooks \in HookConfigs
    /\ msgs = NewHistory
    /\ msg = NoMsg
    /\ pc = "idle"
    /\ turns = 0
    /\ idx = 1
    /\ toolResults = << >>
    /\ ret = NoRet
    /\ hist = msgs
    /\ trips = 0
    /\ evlog = << >>
    /\ chats = 0
    /\ pre = [NoPre EXCEPT !.tasks = PreTasks]

Init ==
    /\ NewAgent(<< >>)
    /\ env \in {"steady", "varied"}
    /\ requests = 0
    /\ shIn = NoShIn
    /\ shOut = NoShOut

Next ==
    \/ ChatStart
    \/ ModelError
    \/ ModelRespond
    \/ ToolDecline
    \/ ToolRunMore
    \/ ToolRunLast

Spec == Init /\ [][Next]_vars

(***************************************************************************)
(* Pre-tasks (Agent.runPreTasks, src/agent.go).  Chat runs the configured  *)
(* pre-tasks while preTasksDone is false; each task has a history of its   *)
(* own (pre.msgs) and its own turn counter (pre.turns).  pre.log keeps, for *)
(* the whole run, every Chat call that entered runPreTasks and every task  *)
(* that was started, that completed or that failed; pre.err is the text of *)
(* the error runPreTasks returned, in parts; pre.calls keeps the calls of  *)
(* the OnPreTaskStart and OnPreTaskEnd hooks, both installed.              *)
(***************************************************************************)
maxPreTaskTurns == 10

\* Texts of the pre-tasks: the done marker, an answer with it and one
\* without it, the placeholder input, an input and two system prompts.
preText ==
    [ doneMarker |-> <<"{", "{", "D", "O", "N", "E", "}", "}">>,
      withMarker |-> <<"o", "k", " ", "{", "{", "D", "O", "N", "E", "}", "}">>,
      without |-> <<"w", "a", "i", "t">>,
      begin |-> <<"B", "e", "g", "i", "n">>,
      go |-> <<"g", "o">>,
      explorePrompt |->
          <<"e", "x", "p", "l", "o", "r", "e", " ", "t", "h", "e", " ", "r", "e", "p", "o">>,
      planPrompt |-> <<"p", "l", "a", "n">> ]

\* The Config.PreTasks lists of the model: one task without an input, or
\* that task followed by a second one with an input.
PreTaskConfigs ==
    LET explore == [Name |-> "explore", SystemPrompt |-> preText.explorePrompt, Input |-> sEmpty,
                    DoneMarker |-> preText.doneMarker]
        plan == [Name |-> "plan", SystemPrompt |-> preText.planPrompt, Input |-> preText.go,
                 DoneMarker |-> preText.doneMarker]
    IN {<<explore>>, <<explore, plan>>}

\* The history a pre-task starts from.
TaskHistory(task) ==
    << Message("system", Str(task.SystemPrompt), << >>, NoId),
       Message("user", Str(IF task.Input = sEmpty THEN preText.begin ELSE task.Input), << >>, NoId) >>

\* The pre-task state p with task k started: OnPreTaskStart is called with
\* the task's name.
StartTask(p, k) ==
    [p EXCEPT !.task = k, !.msgs = TaskHistory(p.tasks[k]), !.turns = 0,
              !.log = Append(@, [ev |-> "start", task |-> k]),
              !.calls = Append(@, [hook |-> "OnPreTaskStart", name |-> p.tasks[k].Name])]

\* fmt.Errorf("pretask %s: %w", task.Name, err): the parts of the error text.
PreError(name, err) == <<"pretask ", name, ": ", err>>

\* A variant that calls OnPreTaskEnd for every task that fails.
FailTaskWithEnd(p, err) ==
    [p EXCEPT !.err = err, !.log = Append(@, [ev |-> "fail", task |-> p.task]),
              !.calls = Append(@, [hook |-> "OnPreTaskEnd", name |-> p.tasks[p.task].Name])]

\* The pre-task state p after runPreTasks returned the error text err from
\* the running task.
FailTask(p, err) == [p EXCEPT !.err = err, !.log = Append(@, [ev |-> "fail", task |-> p.task])]

\* The assistant messages the model may answer a pre-task with.
PreResponses(at) ==
    IF env = "steady"
    THEN { Message("assistant", OtherContent, Batch(at, 1), NoId) }
    ELSE { Message("assistant", OtherContent, << >>, NoId) }
         \cup (IF requests < MaxRequests
               THEN { Message("assistant", Str(t), << >>, NoId) : t \in {preText.withMarker, preText.without} }
                    \cup { Message("assistant", OtherContent, Batch(at, n), NoId) : n \in 1..MaxBatch }
               ELSE {})

\* The top of the turn loop of a pre-task in state p after t turns.
PreEnterTurn(p, t) ==
    IF t >= maxPreTaskTurns
    THEN /\ pc' = "idle"
         /\ ret' = Ret("pretask", sEmpty, "ErrMaxTurnsExceeded")
         /\ pre' = FailTask([p EXCEPT !.turns = t], PreError(p.tasks[p.task].Name, "ErrMaxTurnsExceeded"))
         /\ UNCHANGED requests
    ELSE /\ pc' = "pre-await"
         /\ ret' = NoRet
         /\ pre' = [p EXCEPT !.turns = t]
         /\ requests' = requests + 1

\* Chat on an agent whose pre-tasks have not run to their end.
ChatPre ==
    /\ pc = "idle"
    /\ ~pre.done /\ pre.tasks # << >>
    /\ IF env = "steady" THEN chats < MaxChats ELSE requests < MaxRequests
    /\ chats' = chats + 1
    /\ PreEnterTurn(StartTask([pre EXCEPT !.log = Append(@, [ev |-> "Chat", task |-> 0]),
                                          !.err = << >>], 1), 0)
    /\ idx' = 1
    /\ toolResults' = << >>
    /\ evlog' = << >>
    /\ UNCHANGED <<platform, defaultExecutor, hooks, env, msgs, msg, turns, hist, trips, shellVars>>

PreModelError ==
    /\ pc = "pre-await"
    /\ env = "varied"
    /\ pc' = "idle"
    /\ ret' = Ret("pretask", sEmpty, "transport")
    /\ pre' = FailTask(pre, <<"transport">>)
    /\ UNCHANGED <<platform, defaultExecutor, hooks, env, msgs, msg, turns, idx, toolResults,
                   hist, trips, evlog, chats, requests, shellVars>>

PreModelRespond ==
    /\ pc = "pre-await"
    /\ \E m \in PreResponses(Len(pre.msgs) + 1) :
        LET content == messageContent(m)
            p1 == [pre EXCEPT !.msgs = Append(@, m)]
            p2 == [p1 EXCEPT !.log = Append(@, [ev |-> "done", task |-> pre.task]),
                             !.calls = Append(@, [hook |-> "OnPreTaskEnd", name |-> pre.tasks[pre.task].Name])]
        IN
        /\ msg' = m
        /\ IF Len(m.toolCalls) # 0
           THEN /\ pc' = "pre-tools"
                /\ pre' = p1
                /\ UNCHANGED <<msgs, turns, hist, trips, requests, ret>>
           ELSE IF content = sEmpty
           THEN /\ pc' = "idle"
                /\ ret' = Ret("pretask", sEmpty, "ErrEmptyResponse")
                /\ pre' = FailTask(p1, PreError(pre.tasks[pre.task].Name, "ErrEmptyResponse"))
                /\ UNCHANGED <<msgs, turns, hist, trips, requests>>
           ELSE IF pre.task < Len(pre.tasks)
           THEN /\ PreEnterTurn(StartTask(p2, pre.task + 1), 0)
                /\ UNCHANGED <<msgs, turns, hist, trips>>
           ELSE /\ pre' = [p2 EXCEPT !.done = TRUE, !.task = 0]
                /\ EnterTurn(Append(msgs, Message("user", Str(txtHi), << >>, NoId)), 0)
    /\ idx' = 1
    /\ toolResults' = << >>
    /\ evlog' = << >>
    /\ UNCHANGED <<platform, defaultExecutor, hooks, env, chats, shellVars>>

\* A variant in which a declined call ends only the running pre-task: the
\* next configured pre-task is started.
PreToolDeclineNextTask ==
    /\ pc = "pre-tools"
    /\ hooks.OnToolCall
    /\ evlog' = Append(evlog, Ev("OnToolCall", idx, FALSE))
    /\ LET p == FailTask([pre EXCEPT !.msgs = SubSeq(@, 1, Len(@) - 1),
                                     !.calls = Append(@, [hook |-> "OnPreTaskEnd",
                                                          name |-> pre.tasks[pre.task].Name])],
                         <<"ErrToolCancelled">>) IN
       IF pre.task < Len(pre.tasks)
       THEN PreEnterTurn(StartTask(p, pre.task + 1), 0)
       ELSE /\ pre' = p
            /\ pc' = "idle"
            /\ ret' = Ret("pretask", sEmpty, "ErrToolCancelled")
            /\ UNCHANGED requests
    /\ UNCHANGED <<platform, defaultExecutor, hooks, env, msgs, msg, turns, idx, toolResults, hist, trips,
                   chats, shellVars>>

\* OnToolCall declines a call of a pre-task: the assistant message is taken
\* off the task's history, OnPreTaskEnd is called and runPreTasks returns
\* ErrToolCancelled.
PreToolDecline ==
    /\ pc = "pre-tools"
    /\ hooks.OnToolCall
    /\ evlog' = Append(evlog, Ev("OnToolCall", idx, FALSE))
    /\ pre' = FailTask([pre EXCEPT !.msgs = SubSeq(@, 1, Len(@) - 1),
                                   !.calls = Append(@, [hook |-> "OnPreTaskEnd",
                                                        name |-> pre.tasks[pre.task].Name])],
                       <<"ErrToolCancelled">>)
    /\ pc' = "idle"
    /\ ret' = Ret("pretask", sEmpty, "ErrToolCancelled")
    /\ UNCHANGED <<platform, defaultExecutor, hooks, env, msgs, msg, turns, idx, toolResults, hist, trips,
                   chats, requests, shellVars>>

PreToolRunMore ==
    /\ pc = "pre-tools"
    /\ idx < Len(batch)
    /\ \E w \in ChatWorlds :
        toolResults' = Append(toolResults, ToolMessage(batch[idx], RunTool(batch[idx], w)))
    /\ evlog' = evlog \o RunEvents(idx)
    /\ idx' = idx + 1
    /\ UNCHANGED <<platform, defaultExecutor, hooks, env, pre, msgs, msg, pc, turns, ret, hist,
                   trips, chats, requests, shellVars>>

\* A variant that appends the tool results of a pre-task to the primary
\* history.
PreToolRunLastIntoPrimary ==
    /\ pc = "pre-tools"
    /\ idx = Len(batch)
    /\ \E w \in ChatWorlds :
        /\ toolResults' = Append(toolResults, ToolMessage(batch[idx], RunTool(batch[idx], w)))
        /\ msgs' = Flush(msgs, toolResults')
        /\ PreEnterTurn(pre, pre.turns + 1)
    /\ evlog' = evlog \o RunEvents(idx)
    /\ idx' = idx + 1
    /\ UNCHANGED <<platform, defaultExecutor, hooks, env, msg, turns, hist, trips, chats, shellVars>>

PreToolRunLast ==
    /\ pc = "pre-tools"
    /\ idx = Len(batch)
    /\ \E w \in ChatWorlds :
        /\ toolResults' = Append(toolResults, ToolMessage(batch[idx], RunTool(batch[idx], w)))
        /\ PreEnterTurn([pre EXCEPT !.msgs = Flush(@, toolResults')], pre.turns + 1)
    /\ evlog' = evlog \o RunEvents(idx)
    /\ idx' = idx + 1
    /\ UNCHANGED <<platform, defaultExecutor, hooks, env, msgs, msg, turns, hist, trips, chats, shellVars>>

PreInit ==
    /\ \E tasks \in PreTaskConfigs : NewAgent(tasks)
    /\ env \in {"steady", "varied"}
    /\ requests = 0
    /\ shIn = NoShIn
    /\ shOut = NoShOut

PreNext ==
    \/ ChatPre
    \/ PreModelError
    \/ PreModelRespond
    \/ PreToolDecline
    \/ PreToolRunMore
    \/ PreToolRunLast
    \/ Next

SpecPre == PreInit /\ [][PreNext]_vars

(***************************************************************************)
(* The shell functions called on their own: one call of                    *)
(* ExecuteShellWithSandbox (src/config.go) or of                           *)
(* Agent.executeShellWithSandbox (src/agent.go), on any executor state,    *)
(* command, callbacks and process outcomes.                                *)
(***************************************************************************)
ProcOutputs == {sEmpty, outHello, outOpNotPermitted, outSandboxDeny, outPermDenied, outNotFound}

ConfinedOutcomes ==
    { [err |-> "nil", code |-> 0, out |-> o] : o \in {sEmpty, outHello} }
    \cup { [err |-> "exit", code |-> c, out |-> o] : c \in {1, 2}, o \in ProcOutputs }
    \cup { [err |-> "other", code |-> 0, out |-> o] : o \in {sEmpty, outOpNotPermitted} }

UnconfinedOutcomes ==
    { Succeeds, [err |-> "nil", code |-> 0, out |-> sEmpty],
      [err |-> "exit", code |-> 1, out |-> outPermDenied] }

Commands == {"touch /x", ""}

ShellWorlds(allows) ==
    [confined : ConfinedOutcomes, unconfined : UnconfinedOutcomes,
     approve : BOOLEAN, allow : allows, file : {TRUE}]

ShellInputs ==
    [fn : {"ExecuteShellWithSandbox"}, command : Commands, cfgFallback : BOOLEAN,
     onFallback : {"nil", "set"}, onSubagentToolCall : {"nil"}, w : ShellWorlds({TRUE})]
    \cup
    [fn : {"Agent.executeShellWithSandbox"}, command : Commands, cfgFallback : BOOLEAN,
     onFallback : {"nil", "set"}, onSubagentToolCall : {"nil", "set"}, w : ShellWorlds(BOOLEAN)]

\* GetExecutor: the executor in use, built from DefaultSandboxConfig (whose
\* Enabled is sandboxAvailable()) when none was built before.
GetExecutor == IF defaultExecutor = "nil" THEN NewShellExecutor(platform, platform) ELSE defaultExecutor

CallExecuteShellWithSandbox ==
    /\ ~shOut.called
    /\ shIn.fn = "ExecuteShellWithSandbox"
    /\ defaultExecutor' = GetExecutor
    /\ LET o == ExecuteShellWithSandbox(GetExecutor, shIn.command, shIn.onFallback, shIn.w)
       IN shOut' = [called |-> TRUE, result |-> o.result, log |-> o.log]
    /\ UNCHANGED <<platform, shIn, agentVars>>

CallAgentExecuteShellWithSandbox ==
    /\ ~shOut.called
    /\ shIn.fn = "Agent.executeShellWithSandbox"
    /\ defaultExecutor' = GetExecutor
    /\ LET o == AgentExecuteShellWithSandbox(GetExecutor, shIn.command, shIn.cfgFallback,
                                             shIn.onFallback, shIn.onSubagentToolCall, shIn.w)
       IN shOut' = [called |-> TRUE, result |-> o.result, log |-> o.log]
    /\ UNCHANGED <<platform, shIn, agentVars>>

ShellInit ==
    /\ platform \in BOOLEAN
    /\ defaultExecutor \in {"nil", "passthrough"} \cup (IF platform THEN {"sandboxed"} ELSE {})
    /\ shIn \in ShellInputs
    /\ shOut = NoShOut
    /\ hooks \in {h \in HookConfigs : ~h.OnToolCall}
    /\ env = "steady"
    /\ msgs = NewHistory
    /\ msg = NoMsg
    /\ pc = "idle"
    /\ turns = 0
    /\ idx = 1
    /\ toolResults = << >>
    /\ ret = NoRet
    /\ hist = msgs
    /\ trips = 0
    /\ evlog = << >>
    /\ chats = 0
    /\ requests = 0
    /\ pre = NoPre

ShellNext ==
    \/ CallExecuteShellWithSandbox
    \/ CallAgentExecuteShellWithSandbox

SpecShell == ShellInit /\ [][ShellNext]_vars

(***************************************************************************)
(* The executors called on their own: one call of SandboxedExecutor.Run,   *)
(* of PassthroughExecutor.Run or of ExecuteShellUnsandboxed on a process   *)
(* that ends in any way with any output, a successful process that prints  *)
(* a denial text included.                                                 *)
(***************************************************************************)
\* No agent takes part in a call of a function on its own.
NoAgent ==
    /\ hooks \in {h \in HookConfigs : ~h.OnToolCall}
    /\ env = "steady"
    /\ msgs = NewHistory
    /\ msg = NoMsg
    /\ pc = "idle"
    /\ turns = 0
    /\ idx = 1
    /\ toolResults = << >>
    /\ ret = NoRet
    /\ hist = msgs
    /\ trips = 0
    /\ evlog = << >>
    /\ chats = 0
    /\ requests = 0
    /\ pre = NoPre

RunOutcomes ==
    { [err |-> "nil", code |-> 0, out |-> o] : o \in ProcOutputs }
    \cup { [err |-> "exit", code |-> c, out |-> o] : c \in {1, 2}, o \in ProcOutputs }
    \cup { [err |-> "other", code |-> 0, out |-> o] : o \in ProcOutputs }

RunInputs ==
    [fn : {"SandboxedExecutor.Run", "PassthroughExecutor.Run", "ExecuteShellUnsandboxed"},
     command : Commands, p : RunOutcomes]

CallSandboxedRun ==
    /\ ~shOut.called
    /\ shIn.fn = "SandboxedExecutor.Run"
    /\ shOut' = [called |-> TRUE, result |-> SandboxedRun(shIn.command, shIn.p),
                 log |-> <<Started("sandbox-exec", shIn.command)>>]
    /\ UNCHANGED <<platform, defaultExecutor, shIn, agentVars>>

CallPassthroughRun ==
    /\ ~shOut.called
    /\ shIn.fn = "PassthroughExecutor.Run"
    /\ shOut' = [called |-> TRUE, result |-> PassthroughRun(shIn.command, shIn.p),
                 log |-> <<Started("sh", shIn.command)>>]
    /\ UNCHANGED <<platform, defaultExecutor, shIn, agentVars>>

CallExecuteShellUnsandboxed ==
    /\ ~shOut.called
    /\ shIn.fn = "ExecuteShellUnsandboxed"
    /\ LET o == ExecuteShellUnsandboxed(shIn.command, [unconfined |-> shIn.p])
       IN shOut' = [called |-> TRUE, result |-> o.result, log |-> o.log]
    /\ UNCHANGED <<platform, defaultExecutor, shIn, agentVars>>

RunInit ==
    /\ platform \in BOOLEAN
    /\ defaultExecutor = "nil"
    /\ shIn \in RunInputs
    /\ shOut = NoShOut
    /\ NoAgent

RunNext ==
    \/ CallSandboxedRun
    \/ CallPassthroughRun
    \/ CallExecuteShellUnsandboxed

SpecRun == RunInit /\ [][RunNext]_vars

(***************************************************************************)
(* The classifier called on its own: one call of isSandboxDenial or of     *)
(* extractSandboxReason on an output put together from up to MaxFrags      *)
(* fragments, in mixed case, and a process that failed in any way.  A      *)
(* string is the sequence of its bytes, which is what len and slicing      *)
(* count in Go.                                                            *)
(***************************************************************************)
\* The fragments: 1 "SANDBOX ", 2 "Deny ", 3 "Operation Not Permitted ", 4 "Permission Denied ", 5 "Not Permitted ",
\* 6 "Network ", 7 "Write ", 8 "exec ", 9 "Read ", 10 "x", 11 ReasonCut bytes without any pattern.
Frags ==
    << <<"S", "A", "N", "D", "B", "O", "X", " ">>,
       <<"D", "e", "n", "y", " ">>,
       <<"O", "p", "e", "r", "a", "t", "i", "o", "n", " ", "N", "o", "t", " ", "P", "e", "r", "m", "i", "t", "t", "e", "d", " ">>,
       <<"P", "e", "r", "m", "i", "s", "s", "i", "o", "n", " ", "D", "e", "n", "i", "e", "d", " ">>,
       <<"N", "o", "t", " ", "P", "e", "r", "m", "i", "t", "t", "e", "d", " ">>,
       <<"N", "e", "t", "w", "o", "r", "k", " ">>,
       <<"W", "r", "i", "t", "e", " ">>,
       <<"e", "x", "e", "c", " ">>,
       <<"R", "e", "a", "d", " ">>,
       <<"x">>,
       [i \in 1..ReasonCut |-> "-"] >>

RECURSIVE Concat(_)
Concat(fs) == IF fs = << >> THEN sEmpty ELSE Frags[Head(fs)] \o Concat(Tail(fs))

Outputs == { Concat(fs) : fs \in UNION { [1..n -> 1..Len(Frags)] : n \in 0..MaxFrags } }

\* err of a failed process: *exec.ExitError with its exit code (-1 when a
\* signal ended it), or another error.
Failures ==
    { [err |-> "exit", code |-> c] : c \in {-1, 1, 2} } \cup { [err |-> "other", code |-> 0] }

ClassifyInputs ==
    [fn : {"isSandboxDenial"}, output : Outputs, p : Failures]
    \cup [fn : {"extractSandboxReason"}, output : Outputs, p : {[err |-> "other", code |-> 0]}]

CallIsSandboxDenial ==
    /\ ~shOut.called
    /\ shIn.fn = "isSandboxDenial"
    /\ shOut' = [called |-> TRUE, result |-> isSandboxDenial(shIn.output, shIn.p)]
    /\ UNCHANGED <<platform, defaultExecutor, shIn, agentVars>>

CallExtractSandboxReason ==
    /\ ~shOut.called
    /\ shIn.fn = "extractSandboxReason"
    /\ shOut' = [called |-> TRUE, result |-> extractSandboxReason(shIn.output)]
    /\ UNCHANGED <<platform, defaultExecutor, shIn, agentVars>>

ClassifyInit ==
    /\ platform = TRUE
    /\ defaultExecutor = "sandboxed"
    /\ shIn \in ClassifyInputs
    /\ shOut = NoShOut
    /\ NoAgent

ClassifyNext ==
    \/ CallIsSandboxDenial
    \/ CallExtractSandboxReason

SpecClassify == ClassifyInit /\ [][ClassifyNext]_vars

(***************************************************************************)
(* messageContent called on its own: on a nil message, or on a message     *)
(* whose content is a string, a list of up to MaxParts parts, or something *)
(* else.                                                                   *)
(***************************************************************************)
MaxParts == 3

ContentInit ==
    /\ platform = TRUE
    /\ defaultExecutor = "sandboxed"
    /\ shIn \in [fn : {"messageContent"},
                 msg : {[nil |-> TRUE]}
                       \cup { Message("assistant", c, << >>, NoId) :
                              c \in {OtherContent, Str(sEmpty), Str(txtHi)}
                                    \cup { Parts(ps) :
                                           ps \in UNION { [1..n -> [type : {"text", "output_text", "image_url", ""},
                                                                    text : {sEmpty, txtHi, txtDone}]] :
                                                          n \in 0..MaxParts } } }]
    /\ shOut = NoShOut
    /\ NoAgent

CallMessageContent ==
    /\ ~shOut.called
    /\ shIn.fn = "messageContent"
    /\ shOut' = [called |-> TRUE, result |-> messageContent(shIn.msg)]
    /\ UNCHANGED <<platform, defaultExecutor, shIn, agentVars>>

SpecContent == ContentInit /\ [][CallMessageContent]_vars

(***************************************************************************)
(* The prompt composer (PromptComposer.ComposeWithContext).  A prompt is a *)
(* sequence of pieces of text; an enricher is named by its kind: "env"     *)
(* (EnvironmentEnricher), "os" (OSCommandsEnricher), "custom" (the         *)
(* enricher of TestCustomEnricherInChain) and "output" (OutputEnricher).   *)
(* ComposeWithContext is called on its own on a list of up to              *)
(* MaxEnrichers enrichers.                                                 *)
(***************************************************************************)
MaxEnrichers == 3

\* Enrich of the enricher of kind e: the rendered template, then base.
Enrich(e, base, ctx) ==
    CASE e = "env" ->
           <<"## Environment", ctx.OS,
             IF ctx.OS = "darwin" THEN " (macOS)" ELSE IF ctx.OS = "linux" THEN " (Linux)" ELSE "">> \o base
      [] e = "os" ->
           (CASE ctx.OS = "darwin" -> <<"## macOS Shell Commands">> \o base
              [] ctx.OS = "linux" -> <<"## Linux Shell Commands">> \o base
              [] ctx.OS = "windows" -> <<"## Windows Shell Commands">> \o base
              [] OTHER -> base)
      [] e = "custom" -> <<"## Project">> \o base
      [] OTHER -> <<"## Response Format">> \o base

\* A composer that applies the enrichers in list order.
RECURSIVE ComposeWithContextForward(_, _, _)
ComposeWithContextForward(enrichers, base, ctx) ==
    IF enrichers = << >> THEN base
    ELSE ComposeWithContextForward(Tail(enrichers), Enrich(Head(enrichers), base, ctx), ctx)

\* ComposeWithContext: the loop from the last enricher down to the first.
RECURSIVE ComposeWithContext(_, _, _)
ComposeWithContext(enrichers, base, ctx) ==
    IF enrichers = << >> THEN base
    ELSE ComposeWithContext(SubSeq(enrichers, 1, Len(enrichers) - 1),
                            Enrich(enrichers[Len(enrichers)], base, ctx), ctx)

ComposeInit ==
    /\ platform = TRUE
    /\ defaultExecutor = "sandboxed"
    /\ shIn \in [fn : {"ComposeWithContext"},
                 enrichers : UNION { [1..n -> {"env", "os", "custom", "output"}] : n \in 0..MaxEnrichers },
                 base : {<< >>, <<"LLM prompt here">>},
                 ctx : [OS : {"darwin", "linux", "windows", "freebsd", ""}]]
    /\ shOut = NoShOut
    /\ NoAgent

CallComposeWithContext ==
    /\ ~shOut.called
    /\ shIn.fn = "ComposeWithContext"
    /\ shOut' = [called |-> TRUE, result |-> ComposeWithContext(shIn.enrichers, shIn.base, shIn.ctx)]
    /\ UNCHANGED <<platform, defaultExecutor, shIn, agentVars>>

SpecCompose == ComposeInit /\ [][CallComposeWithContext]_vars

(***************************************************************************)
(* generateProfile called on its own, on a configuration whose path lists  *)
(* hold up to MaxPaths paths each.  The profile is the text the code       *)
(* writes, byte by byte; a path is put between the quotes as it is.        *)
(***************************************************************************)
\* The fixed texts generateProfile writes.
sbpl ==
    [ version |->
          <<"(", "v", "e", "r", "s", "i", "o", "n", " ", "1", ")", "\n">>,
      denyDefault |->
          <<"(", "d", "e", "n", "y", " ", "d", "e", "f", "a", "u", "l", "t", ")">>,
      process |->
          <<"(", "a", "l", "l", "o", "w", " ", "p", "r", "o", "c", "e", "s", "s", "-", "f", "o", "r", "k", ")", "\n", "(", "a", "l", "l", "o", "w", " ", "p", "r", "o", "c", "e", "s", "s", "-", "e", "x", "e", "c", ")", "\n">>,
      readOpen |->
          <<"(", "a", "l", "l", "o", "w", " ", "f", "i", "l", "e", "-", "r", "e", "a", "d", "*", " ", "(", "s", "u", "b", "p", "a", "t", "h", " ", "\"">>,
      writeOpen |->
          <<"(", "a", "l", "l", "o", "w", " ", "f", "i", "l", "e", "-", "w", "r", "i", "t", "e", "*", " ", "(", "s", "u", "b", "p", "a", "t", "h", " ", "\"">>,
      execOpen |->
          <<"(", "a", "l", "l", "o", "w", " ", "p", "r", "o", "c", "e", "s", "s", "-", "e", "x", "e", "c", " ", "(", "s", "u", "b", "p", "a", "t", "h", " ", "\"">>,
      close |->
          <<"\"", ")", ")", "\n">>,
      essentials |->
          <<"(", "a", "l", "l", "o", "w", " ", "f", "i", "l", "e", "-", "r", "e", "a", "d", "-", "m", "e", "t", "a", "d", "a", "t", "a", ")", "\n", "(", "a", "l", "l", "o", "w", " ", "s", "y", "s", "c", "t", "l", "-", "r", "e", "a", "d", ")", "\n", "(", "a", "l", "l", "o", "w", " ", "m", "a", "c", "h", "-", "l", "o", "o", "k", "u", "p", ")", "\n", "(", "a", "l", "l", "o", "w", " ", "s", "i", "g", "n", "a", "l", ")", "\n", "(", "a", "l", "l", "o", "w", " ", "i", "o", "k", "i", "t", "-", "o", "p", "e", "n", ")", "\n">>,
      dev |->
          <<"(", "a", "l", "l", "o", "w", " ", "f", "i", "l", "e", "-", "r", "e", "a", "d", "*", " ", "f", "i", "l", "e", "-", "w", "r", "i", "t", "e", "*", " ", "(", "r", "e", "g", "e", "x", " ", "#", "\"", "^", "/", "d", "e", "v", "/", "\"", ")", ")", "\n", "(", "a", "l", "l", "o", "w", " ", "f", "i", "l", "e", "-", "i", "o", "c", "t", "l", " ", "(", "r", "e", "g", "e", "x", " ", "#", "\"", "^", "/", "d", "e", "v", "/", "\"", ")", ")", "\n">>,
      allowNetwork |->
          <<"(", "a", "l", "l", "o", "w", " ", "n", "e", "t", "w", "o", "r", "k", "*", ")">>,
      denyNetwork |->
          <<"(", "d", "e", "n", "y", " ", "n", "e", "t", "w", "o", "r", "k", "*", ")">>,
      nl |->
          <<"\n">> ]

\* Directory names: "/", "/tmp" and one with a quote in it,
\* /a")) (allow network*) (allow file-read* (subpath "/b
ProfilePaths ==
    << <<"/">>,
       <<"/", "t", "m", "p">>,
       <<"/", "a", "\"", ")", ")", " ", "(", "a", "l", "l", "o", "w", " ", "n", "e", "t", "w", "o", "r", "k", "*", ")", " ", "(", "a", "l", "l", "o", "w", " ", "f", "i", "l", "e", "-", "r", "e", "a", "d", "*", " ", "(", "s", "u", "b", "p", "a", "t", "h", " ", "\"", "/", "b">> >>

\* The list of n paths that starts with path k.
PathList(n, k) == [i \in 1..n |-> ProfilePaths[((k + i - 2) % Len(ProfilePaths)) + 1]]

PathLists == { PathList(n, k) : n \in 0..MaxPaths, k \in 1..Len(ProfilePaths) }

\* The loop that writes one rule for each path of a list.
RECURSIVE Rules(_, _)
Rules(open, paths) ==
    IF paths = << >> THEN sEmpty
    ELSE open \o Head(paths) \o sbpl.close \o Rules(open, Tail(paths))

generateProfile(cfg) ==
    sbpl.version \o sbpl.denyDefault \o sbpl.nl \o sbpl.process
    \o Rules(sbpl.readOpen, cfg.ReadPaths)
    \o Rules(sbpl.writeOpen, cfg.WritePaths)
    \o Rules(sbpl.execOpen, cfg.ExecPaths)
    \o sbpl.essentials \o sbpl.dev
    \o (IF cfg.AllowNetwork THEN sbpl.allowNetwork ELSE sbpl.denyNetwork) \o sbpl.nl

ProfileInputs ==
    [fn : {"generateProfile"},
     cfg : [AllowNetwork : BOOLEAN, ReadPaths : PathLists, WritePaths : PathLists, ExecPaths : PathLists]]

CallGenerateProfile ==
    /\ ~shOut.called
    /\ shIn.fn = "generateProfile"
    /\ shOut' = [called |-> TRUE, result |-> generateProfile(shIn.cfg)]
    /\ UNCHANGED <<platform, defaultExecutor, shIn, agentVars>>

ProfileInit ==
    /\ platform = TRUE
    /\ defaultExecutor = "sandboxed"
    /\ shIn \in ProfileInputs
    /\ shOut = NoShOut
    /\ NoAgent

ProfileNext == CallGenerateProfile

SpecProfile == ProfileInit /\ [][ProfileNext]_vars

(***************************************************************************)
(* The choice of the executor: on a platform (runtime.GOOS, and whether    *)
(* exec.LookPath finds sandbox-exec) InitSandbox is called with a          *)
(* configuration, or is not called at all, and then IsSandboxEnabled or    *)
(* ExecuteShell is called once.                                            *)
(***************************************************************************)
sandboxAvailable(goos, lookPath) == goos = "darwin" /\ lookPath

IsSandboxEnabled(exec) == exec = "sandboxed"

ExecutorInputs ==
    [fn : {"IsSandboxEnabled", "ExecuteShell"}, init : BOOLEAN, enabled : BOOLEAN,
     goos : {"darwin", "linux"}, lookPath : BOOLEAN, command : Commands,
     w : [confined : ConfinedOutcomes, unconfined : {Succeeds}]]

CallInitSandbox ==
    /\ shIn.init
    /\ defaultExecutor = "nil"
    /\ defaultExecutor' = NewShellExecutor(shIn.enabled, platform)
    /\ UNCHANGED <<platform, shellVars, agentVars>>

CallIsSandboxEnabled ==
    /\ ~shOut.called
    /\ shIn.fn = "IsSandboxEnabled"
    /\ shIn.init => defaultExecutor # "nil"
    /\ defaultExecutor' = GetExecutor
    /\ shOut' = [called |-> TRUE, result |-> IsSandboxEnabled(GetExecutor), log |-> << >>]
    /\ UNCHANGED <<platform, shIn, agentVars>>

CallExecuteShell ==
    /\ ~shOut.called
    /\ shIn.fn = "ExecuteShell"
    /\ shIn.init => defaultExecutor # "nil"
    /\ defaultExecutor' = GetExecutor
    /\ LET o == ExecuteShell(GetExecutor, shIn.command, shIn.w)
       IN shOut' = [called |-> TRUE, result |-> o.result, log |-> o.log]
    /\ UNCHANGED <<platform, shIn, agentVars>>

ExecutorInit ==
    /\ shIn \in ExecutorInputs
    /\ platform = sandboxAvailable(shIn.goos, shIn.lookPath)
    /\ defaultExecutor = "nil"
    /\ shOut = NoShOut
    /\ NoAgent

ExecutorNext ==
    \/ CallInitSandbox
    \/ CallIsSandboxEnabled
    \/ CallExecuteShell

SpecExecutor == ExecutorInit /\ [][ExecutorNext]_vars

(***************************************************************************)
(* Several conversations of one process.  Each of them may build an agent  *)
(* (NewAgent calls InitSandbox with the agent's sandbox configuration, or   *)
(* with DefaultSandboxConfig when the configuration names no paths), call  *)
(* InitSandbox itself, or use the executor through GetExecutor,            *)
(* IsSandboxEnabled or ExecuteShell.  Nothing synchronises the variable,   *)
(* so the nil test of GetExecutor and its assignment are two steps.        *)
(* shOut.log keeps every assignment of defaultExecutor and every executor  *)
(* a conversation got from GetExecutor; shOut.pending holds the            *)
(* conversations that are between the nil test and the assignment.         *)
(***************************************************************************)
MaxConvs == 2
MaxCalls == 4

\* DefaultSandboxConfig() where sandboxAvailable() is available.  A path
\* list is a record: IsNil tells the nil slice; the default lists are cut
\* to one directory each.
DefaultSandboxConfig(available) ==
    [Enabled |-> available, AllowNetwork |-> FALSE,
     ReadPaths |-> [IsNil |-> FALSE, list |-> <<ProfilePaths[1]>>],
     WritePaths |-> [IsNil |-> FALSE, list |-> <<ProfilePaths[2]>>],
     ExecPaths |-> [IsNil |-> FALSE, list |-> << <<"/", "b", "i", "n">> >>],
     FallbackOutsideSandbox |-> TRUE]

\* A NewAgent that fills in the default paths and keeps the caller's flags.
NewAgentSandboxConfigKeepFlags(cfg, available) ==
    IF cfg.ReadPaths.IsNil /\ cfg.WritePaths.IsNil /\ cfg.ExecPaths.IsNil
    THEN [DefaultSandboxConfig(available) EXCEPT !.Enabled = cfg.Enabled, !.AllowNetwork = cfg.AllowNetwork,
                                                 !.FallbackOutsideSandbox = cfg.FallbackOutsideSandbox]
    ELSE cfg

\* The configuration NewAgent hands to InitSandbox for config.Sandbox = cfg.
NewAgentSandboxConfig(cfg, available) ==
    IF cfg.ReadPaths.IsNil /\ cfg.WritePaths.IsNil /\ cfg.ExecPaths.IsNil
    THEN DefaultSandboxConfig(available)
    ELSE cfg

\* InitSandbox(cfg), called by NewAgent or directly (directly, with
\* configurations that differ in Enabled and in the read paths).  shIn keeps
\* the call that made the last assignment: the configuration given and the
\* one the executor was built from.
ProcInitSandbox ==
    /\ Len(shOut.log) < MaxCalls
    /\ \E by \in {"NewAgent", "InitSandbox"},
          cfg \in [Enabled : BOOLEAN, AllowNetwork : BOOLEAN, FallbackOutsideSandbox : BOOLEAN,
                   ReadPaths : {[IsNil |-> TRUE, list |-> << >>], [IsNil |-> FALSE, list |-> << >>],
                                [IsNil |-> FALSE, list |-> <<ProfilePaths[1]>>]},
                   WritePaths : {[IsNil |-> TRUE, list |-> << >>], [IsNil |-> FALSE, list |-> <<ProfilePaths[2]>>]},
                   ExecPaths : {[IsNil |-> TRUE, list |-> << >>]}] :
        LET used == IF by = "NewAgent" THEN NewAgentSandboxConfig(cfg, platform) ELSE cfg IN
        /\ (by = "InitSandbox" =>
               ~cfg.AllowNetwork /\ cfg.FallbackOutsideSandbox /\ ~cfg.ReadPaths.IsNil /\ ~cfg.WritePaths.IsNil)
        /\ defaultExecutor' = NewShellExecutor(used.Enabled, platform)
        /\ shIn' = [fn |-> by, cfg |-> cfg, used |-> used]
        /\ shOut' = [shOut EXCEPT !.log = Append(@, [ev |-> "assign", conv |-> 0, exec |-> defaultExecutor'])]
    /\ UNCHANGED <<platform, agentVars>>

\* GetExecutor up to its return or, on nil, up to the assignment.
ProcGetExecutor ==
    /\ Len(shOut.log) < MaxCalls
    /\ \E c \in (1..MaxConvs) \ shOut.pending, by \in {"GetExecutor", "IsSandboxEnabled", "ExecuteShell"} :
        IF defaultExecutor = "nil"
        THEN shOut' = [shOut EXCEPT !.pending = @ \cup {c}]
        ELSE shOut' = [shOut EXCEPT !.log = Append(@, [ev |-> "observe", conv |-> c, exec |-> defaultExecutor])]
    /\ UNCHANGED <<platform, defaultExecutor, shIn, agentVars>>

\* The assignment of GetExecutor after it found the variable nil.
ProcLazyInit ==
    /\ \E c \in shOut.pending :
        /\ defaultExecutor' = NewShellExecutor(platform, platform)
        /\ shOut' = [shOut EXCEPT !.pending = @ \ {c},
                                  !.log = @ \o << [ev |-> "assign", conv |-> 0, exec |-> defaultExecutor'],
                                                  [ev |-> "observe", conv |-> c, exec |-> defaultExecutor'] >>]
    /\ shIn' = [fn |-> "GetExecutor", cfg |-> DefaultSandboxConfig(platform),
                used |-> DefaultSandboxConfig(platform)]
    /\ UNCHANGED <<platform, agentVars>>

ProcessInit ==
    /\ platform \in BOOLEAN
    /\ defaultExecutor = "nil"
    /\ shIn = NoShIn
    /\ shOut = [called |-> FALSE, log |-> << >>, pending |-> {}]
    /\ NoAgent

ProcessNext ==
    \/ ProcInitSandbox
    \/ ProcGetExecutor
    \/ ProcLazyInit

SpecProcess == ProcessInit /\ [][ProcessNext]_vars

(***************************************************************************)
(* Properties of Agent.Chat, checked under Spec.                           *)
(***************************************************************************)
Last(q) == q[Len(q)]

\* Chat has returned because OnToolCall declined a call.
Cancelled == pc = "idle" /\ evlog # << >> /\ Last(evlog).ev = "OnToolCall" /\ ~Last(evlog).ok

\* C1: cancellation rollback.  After Chat returns from a turn in which
\* OnToolCall declined a call, the history equals the history held at the
\* start of that turn: same length, same messages in the same order.
CancellationRollback == Cancelled => msgs = hist

\* Reached: the middle call of a batch of three is declined in a turn that
\* started from a history holding an earlier complete turn.
CancellationRollbackWitness ==
    /\ Cancelled
    /\ Len(msg.toolCalls) = 3
    /\ Last(evlog).call = 2
    /\ turns >= 1
    /\ msgs = hist

\* C2: atomicity.  After a declined call no tool-role message of that batch
\* is in the history, the calls executed before the declined one included.
BatchAtomicity ==
    Cancelled =>
        \A i \in 1..Len(msgs) : \A k \in 1..Len(msg.toolCalls) :
            msgs[i].role = "tool" => msgs[i].toolCallId # msg.toolCalls[k].id

\* Reached: the last call of a batch is declined after two calls were
\* executed and their results were pending.
BatchAtomicityWitness ==
    /\ Cancelled
    /\ Last(evlog).call = 3
    /\ Len(toolResults) = 2
    /\ \A i \in 1..Len(msgs) : msgs[i].toolCallId \notin {toolResults[1].toolCallId,
                                                         toolResults[2].toolCallId}

\* C3: turn budget.  A Chat call makes at most maxChatTurns model
\* round-trips; it returns ErrMaxTurnsExceeded only after exactly
\* maxChatTurns round-trips; and a Chat call that has returned after every
\* one of its round-trips brought a batch that ran in full has returned
\* ErrMaxTurnsExceeded.
TurnBudget ==
    /\ trips <= maxChatTurns
    /\ (ret.err = "ErrMaxTurnsExceeded" => pc = "idle" /\ trips = maxChatTurns)
    /\ (pc = "idle" /\ trips >= 1 /\ turns = trips =>
            ret.err = "ErrMaxTurnsExceeded" /\ trips = maxChatTurns)

\* Reached: Chat returned ErrMaxTurnsExceeded after ten round-trips.
TurnBudgetWitness ==
    /\ pc = "idle"
    /\ ret.err = "ErrMaxTurnsExceeded"
    /\ trips = maxChatTurns
    /\ turns = maxChatTurns

\* C4: every tool-role message of the history follows an assistant message,
\* with only tool-role messages between them, and carries the id of one of
\* the tool calls of that assistant message.
ToolIdsMatch ==
    \A i \in 1..Len(msgs) :
        msgs[i].role = "tool" =>
            \E j \in 1..(i - 1) :
                /\ msgs[j].role = "assistant"
                /\ \A k \in (j + 1)..i : msgs[k].role = "tool"
                /\ \E c \in 1..Len(msgs[j].toolCalls) : msgs[j].toolCalls[c].id = msgs[i].toolCallId

\* Reached: a second Chat call is in its tool loop on a history that holds
\* the tool results of the first.
ToolIdsMatchWitness ==
    /\ chats = 2
    /\ pc = "tools"
    /\ \E i \in 1..Len(hist) : hist[i].role = "tool"

\* In h every assistant message with n tool calls is directly followed by
\* exactly n tool-role messages, which carry the ids of the calls in order.
CompleteBatches(h) ==
    \A j \in 1..Len(h) :
        h[j].role = "assistant" =>
            LET n == Len(h[j].toolCalls) IN
            /\ j + n <= Len(h)
            /\ \A i \in 1..n : h[j + i].role = "tool" /\ h[j + i].toolCallId = h[j].toolCalls[i].id
            /\ (j + n + 1 <= Len(h) => h[j + n + 1].role # "tool")

\* C5: a history that is with the model (Chat is inside ChatCompletion)
\* holds every batch in full and in call order, never a part of one.
SentHistoryComplete == pc = "await" => CompleteBatches(msgs)

\* Reached: the history sent holds a batch of three calls with its results.
SentHistoryCompleteWitness ==
    /\ pc = "await"
    /\ \E j \in 1..Len(msgs) : Len(msgs[j].toolCalls) = 3

\* C6: a history that ends with an assistant message without tool calls is
\* the end of the turn loop: Chat has returned, with ErrEmptyResponse when
\* the text of the message is empty and with that text and no error
\* otherwise, no tool ran in that turn and no request is with the model.
TerminalTurn ==
    (msgs # << >> /\ Last(msgs).role = "assistant" /\ Len(Last(msgs).toolCalls) = 0) =>
        /\ pc = "idle"
        /\ evlog = << >> /\ toolResults = << >>
        /\ trips = turns + 1
        /\ LET text == messageContent(Last(msgs)) IN
           IF text = sEmpty
           THEN ret.err = "ErrEmptyResponse" /\ ret.answer = sEmpty
           ELSE ret.err = "nil" /\ ret.answer = text

\* Reached: Chat failed with ErrEmptyResponse on a message whose content
\* is not text, after an earlier turn with tools.
TerminalTurnWitness ==
    /\ pc = "idle"
    /\ ret.err = "ErrEmptyResponse"
    /\ Last(msgs).role = "assistant"
    /\ Last(msgs).content.kind = "other"
    /\ turns >= 1

DeclineStopsBatch ==
    \A p \in 1..Len(evlog) :
        /\ (evlog[p].ev = "OnToolCall" /\ ~evlog[p].ok) =>
              /\ p = Len(evlog)
              /\ \A q \in 1..Len(evlog) :
                    /\ evlog[q].call <= evlog[p].call
                    /\ (evlog[q].call = evlog[p].call => q = p)
              /\ Len(toolResults) = evlog[p].call - 1
        /\ (evlog[p].ev = "exec" /\ hooks.OnToolCall) =>
              \E q \in 1..(p - 1) : evlog[q] = Ev("OnToolCall", evlog[p].call, TRUE)

\* Reached: the second of three calls is declined after the first ran.
DeclineStopsBatchWitness ==
    /\ Cancelled
    /\ Len(msg.toolCalls) = 3
    /\ evlog = <<Ev("OnToolCall", 1, TRUE), Ev("exec", 1, TRUE), Ev("OnToolDone", 1, TRUE),
                 Ev("OnToolCall", 2, FALSE)>>

(***************************************************************************)
(* Properties of the fallback, checked under SpecShell.                    *)
(***************************************************************************)
\* The call ran the command confined and the run was classified as a denial.
Denied ==
    /\ shOut.called
    /\ defaultExecutor = "sandboxed"
    /\ shIn.w.confined.err # "nil"
    /\ isSandboxDenial(shIn.w.confined.out, shIn.w.confined)

HasEvent(log, what) == \E i \in 1..Len(log) : log[i].ev = what

\* C9: when the confined run is a denial and the fallback callback
\* approves, ExecuteShellWithSandbox runs the very same command text under
\* plain sh and returns the result of that second run, whose ExecMeta says
\* sandboxed = false and sandboxError = false.
FallbackApproved ==
    (Denied /\ shIn.fn = "ExecuteShellWithSandbox" /\ shIn.onFallback = "set" /\ shIn.w.approve) =>
        /\ Len(shOut.log) = 3
        /\ shOut.log[1].ev = "sandbox-exec" /\ shOut.log[1].command = shIn.command
        /\ shOut.log[2].ev = "OnSandboxFallback" /\ shOut.log[2].command = shIn.command
        /\ shOut.log[3].ev = "sh" /\ shOut.log[3].command = shIn.command
        /\ shOut.result.Output = shIn.w.unconfined.out
        /\ shOut.result.Success = (shIn.w.unconfined.err = "nil")
        /\ ~shOut.result.ExecMeta.IsNil
        /\ ~shOut.result.ExecMeta.Sandboxed
        /\ ~shOut.result.ExecMeta.SandboxError

\* Reached: a blocked touch is approved and succeeds outside the sandbox.
FallbackApprovedWitness ==
    /\ Denied /\ shIn.fn = "ExecuteShellWithSandbox" /\ shIn.onFallback = "set" /\ shIn.w.approve
    /\ shIn.command = "touch /x"
    /\ shIn.w.confined.out = outOpNotPermitted
    /\ shOut.result.Success
    /\ Len(shOut.log) = 3

\* C10: when the confined run is a denial and the fallback callback
\* declines or is not configured, the result returned is the denial result
\* itself (success = false, the output of the confined run, sandboxError =
\* true, its reason) and the command is not run outside the sandbox.
FallbackDeclined ==
    (Denied /\ (shIn.onFallback = "nil" \/ ~shIn.w.approve)) =>
        /\ ~shOut.result.Success
        /\ shOut.result.Output = shIn.w.confined.out
        /\ ~shOut.result.ExecMeta.IsNil
        /\ shOut.result.ExecMeta.Sandboxed
        /\ shOut.result.ExecMeta.SandboxError
        /\ shOut.result.ExecMeta.SandboxReason = extractSandboxReason(shIn.w.confined.out)
        /\ ~HasEvent(shOut.log, "sh")

\* C11: the fallback is gated by Config.Sandbox.FallbackOutsideSandbox:
\* after a denial with the flag false the fallback callback is not invoked,
\* the command is not run outside the sandbox and the denial result is
\* returned.
FallbackGated ==
    (Denied /\ ~shIn.cfgFallback) =>
        /\ ~HasEvent(shOut.log, "OnSandboxFallback")
        /\ ~HasEvent(shOut.log, "sh")
        /\ shOut.result = SandboxedRun(shIn.command, shIn.w.confined)

\* The call found no sandboxed executor: sandboxing is disabled or unavailable.
Disabled == shOut.called /\ defaultExecutor # "sandboxed"

\* The entries of a log that are callback invocations.
Asks(log) == {i \in 1..Len(log) : log[i].ev \notin {"sh", "sandbox-exec"}}

\* C12 as stated: with sandboxing disabled or unavailable, every command
\* has the approval callback consulted exactly once, before any process is
\* started, and a process is started only if the callback approved.
DisabledAlwaysAsks ==
    Disabled =>
        /\ Cardinality(Asks(shOut.log)) = 1
        /\ shOut.log[1].ev = "OnSubagentToolCall"
        /\ (HasEvent(shOut.log, "sh") => shIn.w.allow)

\* C12 amended: with sandboxing disabled or unavailable and
\* OnSubagentToolCall configured, Agent.executeShellWithSandbox consults it
\* exactly once, before any process is started, and runs the command under
\* plain sh only if it approves (a decline returns the cancelled result and
\* starts no process); with no callback configured, and in
\* ExecuteShellWithSandbox, the command is run under plain sh directly and
\* no callback is consulted.
DisabledApproval ==
    Disabled =>
        IF shIn.fn = "Agent.executeShellWithSandbox" /\ shIn.onSubagentToolCall = "set"
        THEN /\ Asks(shOut.log) = {1}
             /\ shOut.log[1].ev = "OnSubagentToolCall"
             /\ ~HasEvent(shOut.log, "sandbox-exec")
             /\ IF shIn.w.allow
                THEN /\ Len(shOut.log) = 2
                     /\ shOut.log[2].ev = "sh" /\ shOut.log[2].command = shIn.command
                     /\ shOut.result.Output = shIn.w.unconfined.out
                     /\ ~shOut.result.ExecMeta.Sandboxed
                ELSE /\ Len(shOut.log) = 1
                     /\ ~shOut.result.Success
                     /\ shOut.result.Output = sCancelledByUser
        ELSE /\ Len(shOut.log) = 1
             /\ shOut.log[1].ev = "sh" /\ shOut.log[1].command = shIn.command
             /\ shOut.result.Output = shIn.w.unconfined.out

\* Reached: on a platform without sandbox-exec the callback declined and
\* nothing was run.
DisabledApprovalWitness ==
    /\ Disabled
    /\ ~platform
    /\ shIn.fn = "Agent.executeShellWithSandbox" /\ shIn.onSubagentToolCall = "set"
    /\ ~shIn.w.allow
    /\ shOut.log = <<Asked("OnSubagentToolCall", shIn.command, sEmpty)>>
    /\ shOut.result.Status = "cancelled"

(***************************************************************************)
(* Properties of the executors, checked under SpecRun.                     *)
(***************************************************************************)
\* C13: a confined run ends in exactly one of three outcomes.  A process
\* that did not fail gives success, sandboxed, no sandbox error, status
\* "ok", whatever it printed; a failed process whose output the classifier
\* takes for a denial gives failure, sandboxed, sandbox error with a
\* non-empty reason, status "sandbox blocked"; any other failed process
\* gives failure, sandboxed, no sandbox error, status "fail".
ConfinedRunOutcomes ==
    (shOut.called /\ shIn.fn = "SandboxedExecutor.Run") =>
        LET r == shOut.result
            p == shIn.p
        IN /\ ~r.ExecMeta.IsNil /\ r.ExecMeta.Sandboxed
           /\ r.Output = p.out
           /\ IF p.err = "nil"
              THEN r.Success /\ ~r.ExecMeta.SandboxError /\ r.Status = "ok"
                   /\ r.ExecMeta.SandboxReason = sEmpty
              ELSE IF isSandboxDenial(p.out, p)
              THEN ~r.Success /\ r.ExecMeta.SandboxError /\ r.Status = "sandbox blocked"
                   /\ r.ExecMeta.SandboxReason # sEmpty
              ELSE ~r.Success /\ ~r.ExecMeta.SandboxError /\ r.Status = "fail"
                   /\ r.ExecMeta.SandboxReason = sEmpty

\* Reached: a confined process that printed a denial text and did not fail
\* is a success.
ConfinedRunOutcomesWitness ==
    /\ shOut.called /\ shIn.fn = "SandboxedExecutor.Run"
    /\ shIn.p.err = "nil"
    /\ shIn.p.out = outSandboxDeny
    /\ shOut.result.Success
    /\ shOut.result.Status = "ok"

\* C14: an unconfined run (PassthroughExecutor.Run, ExecuteShellUnsandboxed)
\* reports sandboxed = false, sandboxError = false and no reason for every
\* command and every output; its status is "ok" or "fail" by the error of
\* the process alone.
UnconfinedRunNeverClassifies ==
    (shOut.called /\ shIn.fn \in {"PassthroughExecutor.Run", "ExecuteShellUnsandboxed"}) =>
        LET r == shOut.result
        IN /\ ~r.ExecMeta.IsNil
           /\ ~r.ExecMeta.Sandboxed
           /\ ~r.ExecMeta.SandboxError
           /\ r.ExecMeta.SandboxReason = sEmpty
           /\ r.Output = shIn.p.out
           /\ r.Success = (shIn.p.err = "nil")
           /\ r.Status = (IF shIn.p.err = "nil" THEN "ok" ELSE "fail")

\* Reached: an unconfined process exited 1 with "Permission denied", which
\* a confined run would report as a denial.
UnconfinedRunNeverClassifiesWitness ==
    /\ shOut.called /\ shIn.fn = "ExecuteShellUnsandboxed"
    /\ shIn.p = [err |-> "exit", code |-> 1, out |-> outPermDenied]
    /\ isSandboxDenial(shIn.p.out, shIn.p)
    /\ shOut.result.Status = "fail"

(***************************************************************************)
(* Properties of the classifier, checked under SpecClassify.               *)
(***************************************************************************)
\* The output contains the pattern when letter case is ignored.
Has(output, pattern) == Contains(ToLower(output), pattern)

Classified == shOut.called /\ shIn.fn = "isSandboxDenial"

\* C15: for a failed process whose output contains both "sandbox" and
\* "deny", in any letter case, isSandboxDenial returns true whatever the
\* exit code or the kind of error is.
DenialOnSandboxDeny ==
    (Classified /\ Has(shIn.output, sSandbox) /\ Has(shIn.output, sDeny)) => shOut.result = TRUE

\* Reached: "Deny SANDBOX " from a process that failed without an exit
\* status is a denial.
DenialOnSandboxDenyWitness ==
    /\ Classified
    /\ shIn.output = Frags[2] \o Frags[1]
    /\ shIn.p.err = "other"
    /\ shOut.result = TRUE

\* The output matches none of the denial patterns.
NoDenialPattern(output) ==
    /\ ~(Has(output, sSandbox) /\ Has(output, sDeny))
    /\ ~Has(output, sOperationNotPermitted)
    /\ ~Has(output, sPermissionDenied)
    /\ ~Has(output, sNotPermitted)

\* C16: for an output that matches none of the denial patterns
\* isSandboxDenial returns false for every exit code and kind of error.
NoDenialWithoutPattern ==
    (Classified /\ NoDenialPattern(shIn.output)) => shOut.result = FALSE

\* Reached: exit code 1 with output "SANDBOX Read " is no denial.
NoDenialWithoutPatternWitness ==
    /\ Classified
    /\ shIn.output = Frags[1] \o Frags[9]
    /\ shIn.p = [err |-> "exit", code |-> 1]
    /\ shOut.result = FALSE

\* C17: for an output that contains "permission denied" or "not permitted"
\* but neither "operation not permitted" nor both "sandbox" and "deny",
\* isSandboxDenial returns true exactly when the process exited with exit
\* code 1.
DenialOnExitOneOnly ==
    (/\ Classified
     /\ Has(shIn.output, sPermissionDenied) \/ Has(shIn.output, sNotPermitted)
     /\ ~Has(shIn.output, sOperationNotPermitted)
     /\ ~(Has(shIn.output, sSandbox) /\ Has(shIn.output, sDeny)))
    => (shOut.result = (shIn.p.err = "exit" /\ shIn.p.code = 1))

\* Reached: "Not Permitted SANDBOX " with exit code 2 is no denial.
DenialOnExitOneOnlyWitness ==
    /\ Classified
    /\ shIn.output = Frags[5] \o Frags[1]
    /\ shIn.p = [err |-> "exit", code |-> 2]
    /\ shOut.result = FALSE

\* C18: extractSandboxReason picks the reason by a fixed priority over the
\* case-folded output: "network", then "write" or "permission denied", then
\* "exec", then "read"; without any of them an output longer than 100 is
\* cut to its first 100 bytes followed by "...", a shorter non-empty output
\* is returned as it is, and the empty output gives "sandbox policy
\* violation".
ReasonPriority ==
    (shOut.called /\ shIn.fn = "extractSandboxReason") =>
        LET o == shIn.output
            r == shOut.result
            network == Has(o, sNetwork)
            write == Has(o, sWrite) \/ Has(o, sPermissionDenied)
            exec == Has(o, sExec)
            read == Has(o, sRead)
            none == ~network /\ ~write /\ ~exec /\ ~read
        IN /\ network => r = rNetwork
           /\ (~network /\ write) => r = rWrite
           /\ (~network /\ ~write /\ exec) => r = rExec
           /\ (~network /\ ~write /\ ~exec /\ read) => r = rRead
           /\ (none /\ Len(o) > 100) =>
                 /\ Len(r) = 103
                 /\ SubSeq(r, 1, 100) = SubSeq(o, 1, 100)
                 /\ SubSeq(r, 101, 103) = sDots
           /\ (none /\ Len(o) \in 1..100) => r = o
           /\ o = sEmpty => r = rPolicy

\* Reached: an output with both "write" and "network" gives the network reason.
ReasonPriorityWitness ==
    /\ shOut.called /\ shIn.fn = "extractSandboxReason"
    /\ shIn.output = Frags[7] \o Frags[6]
    /\ shOut.result = rNetwork

(***************************************************************************)
(* Properties of the profile, checked under SpecProfile.                   *)
(***************************************************************************)
\* How often the text sub occurs in the text s.
Count(s, sub) == Cardinality({i \in 0..(Len(s) - Len(sub)) : SubSeq(s, i + 1, i + Len(sub)) = sub})

\* C19: for every configuration the profile holds exactly one
\* "(deny default)" declaration, one subpath-scoped file-read rule for each
\* entry of ReadPaths, one file-write rule for each entry of WritePaths, one
\* process-exec rule for each entry of ExecPaths, and exactly one network
\* rule, "(allow network*)" when AllowNetwork is true and "(deny network*)"
\* when it is false.
ProfileRules ==
    shOut.called =>
        LET profile == shOut.result
            cfg == shIn.cfg
        IN /\ Count(profile, sbpl.denyDefault) = 1
           /\ Count(profile, sbpl.readOpen) = Len(cfg.ReadPaths)
           /\ Count(profile, sbpl.writeOpen) = Len(cfg.WritePaths)
           /\ Count(profile, sbpl.execOpen) = Len(cfg.ExecPaths)
           /\ Count(profile, sbpl.allowNetwork) = (IF cfg.AllowNetwork THEN 1 ELSE 0)
           /\ Count(profile, sbpl.denyNetwork) = (IF cfg.AllowNetwork THEN 0 ELSE 1)

(***************************************************************************)
(* Properties of the choice of the executor, checked under SpecExecutor.   *)
(***************************************************************************)
\* C20: the sandboxed executor is in use exactly when the configuration
\* given to InitSandbox has Enabled set (the default configuration, used
\* when InitSandbox was not called, sets it by the platform check) and the
\* platform is darwin with sandbox-exec on the search path.  In every other
\* case the executor is the passthrough one, IsSandboxEnabled reports false
\* and a run starts plain sh, never sandbox-exec.
ConfinementOnlyWhenAvailable ==
    LET confined == /\ (shIn.init => shIn.enabled)
                    /\ shIn.goos = "darwin"
                    /\ shIn.lookPath
    IN /\ defaultExecutor # "nil" =>
             defaultExecutor = (IF confined THEN "sandboxed" ELSE "passthrough")
       /\ (shOut.called /\ shIn.fn = "IsSandboxEnabled") => shOut.result = confined
       /\ (shOut.called /\ shIn.fn = "ExecuteShell") =>
             /\ HasEvent(shOut.log, "sandbox-exec") = confined
             /\ HasEvent(shOut.log, "sh") = ~confined
             /\ shOut.result.ExecMeta.Sandboxed = confined

\* Reached: sandboxing is enabled on darwin, sandbox-exec is not on the
\* search path, and the command ran under plain sh.
ConfinementOnlyWhenAvailableWitness ==
    /\ shOut.called /\ shIn.fn = "ExecuteShell"
    /\ shIn.init /\ shIn.enabled
    /\ shIn.goos = "darwin" /\ ~shIn.lookPath
    /\ defaultExecutor = "passthrough"
    /\ shOut.log = <<Started("sh", shIn.command)>>

\* The place of an event in the order of a batch: call by call, and for one
\* call the approval hook, the execution, OnToolDone.
Rank(e) == 3 * e.call + (CASE e.ev = "OnToolCall" -> 0 [] e.ev = "exec" -> 1 [] OTHER -> 2)

\* C27: the steps of a batch are strictly sequential.  The approval hook,
\* the execution and OnToolDone of a call all come before the approval hook
\* of any later call, the calls are executed in the order received
\* (calls 1 to idx - 1, their results pending in that order), and no model
\* round-trip starts between the response that carried the batch and the
\* end of the batch.
SequentialSteps ==
    [][pc = "tools" =>
        /\ \A a, b \in 1..Len(evlog') : a < b => Rank(evlog'[a]) < Rank(evlog'[b])
        /\ {evlog'[a].call : a \in {x \in 1..Len(evlog') : evlog'[x].ev = "exec"}} = 1..(idx' - 1)
        /\ \A k \in 1..Len(toolResults') : toolResults'[k].toolCallId = batch[k].id
        /\ (pc' = "tools" => requests' = requests /\ trips' = trips)
        /\ (requests' # requests => idx' = Len(batch) + 1)]_vars

\* Reached: a batch of three calls has run with both hooks set.
SequentialStepsWitness ==
    /\ pc = "await"
    /\ turns = 1
    /\ Len(batch) = 3
    /\ Len(evlog) = 9
    /\ Len(toolResults) = 3

\* The position of the last user message of history h.
LastUser(h) == CHOOSE u \in 1..Len(h) : h[u].role = "user" /\ \A v \in (u + 1)..Len(h) : h[v].role # "user"

\* C28: when the model round-trip fails Chat returns the error and removes
\* nothing.  The history is the one that was sent in the failed request:
\* it ends with the user input of this call followed by the complete
\* earlier turns of this call, one assistant message with its full batch
\* of tool results for each.
TransportErrorKeepsHistory ==
    (pc = "idle" /\ ret.err = "transport") =>
        /\ msgs = hist
        /\ CompleteBatches(msgs)
        /\ LET u == LastUser(msgs) IN
           /\ msgs[u] = Message("user", Str(txtHi), << >>, NoId)
           /\ Cardinality({v \in (u + 1)..Len(msgs) : msgs[v].role = "assistant"}) = turns
           /\ \A v \in (u + 1)..Len(msgs) : msgs[v].role = "assistant" => msgs[v].toolCalls # << >>

\* Reached: the round-trip fails after a complete turn with a batch of two.
TransportErrorKeepsHistoryWitness ==
    /\ pc = "idle" /\ ret.err = "transport"
    /\ turns = 1
    /\ Len(msg.toolCalls) = 2
    /\ Len(msgs) = LastUser(msgs) + 3

(***************************************************************************)
(* Properties of the pre-tasks, checked under SpecPre.                     *)
(***************************************************************************)
\* The step completes the running pre-task.
TaskCompletes == pc = "pre-await" /\ Len(pre'.log) > Len(pre.log) /\ pre'.log[Len(pre.log) + 1].ev = "done"

\* C21: a response without tool calls ends a pre-task only if its text
\* contains the task's DoneMarker; a response without tool calls and
\* without the marker does not end the task.
DoneOnlyOnMarker ==
    [][TaskCompletes => Contains(messageContent(msg'), pre.tasks[pre.task].DoneMarker)]_vars

\* Chat has returned the error of a pre-task that was cancelled or that
\* exhausted maxPreTaskTurns.
PreTaskAborted ==
    pc = "idle" /\ ret.kind = "pretask" /\ ret.err \in {"ErrToolCancelled", "ErrMaxTurnsExceeded"}

\* C22: a cancelled pre-task, or one that exhausts its turn budget, aborts
\* the whole pre-task sequence: nothing is started after a failed task
\* until the next Chat call, and the Chat call returns the error with the
\* primary history as NewAgent left it (the user input is not appended)
\* and without a primary model round-trip.
AbortStopsSequence ==
    /\ \A i \in 1..Len(pre.log) :
         pre.log[i].ev = "fail" => (i = Len(pre.log) \/ pre.log[i + 1].ev = "Chat")
    /\ PreTaskAborted =>
         /\ Last(pre.log) = [ev |-> "fail", task |-> pre.task]
         /\ ~pre.done
         /\ msgs = NewHistory /\ hist = NewHistory
         /\ trips = 0

AbortStopsSequenceWitness ==
    /\ PreTaskAborted
    /\ ret.err = "ErrMaxTurnsExceeded"
    /\ pre.turns = maxPreTaskTurns
    /\ pre.task < Len(pre.tasks)

\* C23: the error of an aborted pre-task names the task, for cancellation
\* as for turn-budget exhaustion: the name of the failed task is part of
\* the error text runPreTasks returned.
AbortNamesTask ==
    PreTaskAborted => \E i \in 1..Len(pre.err) : pre.err[i] = pre.tasks[pre.task].Name

\* C24: over any sequence of Chat calls on one Agent each configured
\* pre-task is run exactly once, whether it completed or failed: no task
\* is started twice, and a later Chat call never runs a pre-task again.
PreTaskRunsOnce ==
    \A i, j \in 1..Len(pre.log) :
        (pre.log[i].ev = "start" /\ pre.log[j].ev = "start" /\ pre.log[i].task = pre.log[j].task) => i = j

\* The step belongs to runPreTasks.
PreTaskStep == pc \in {"pre-await", "pre-tools"} \/ pc' \in {"pre-await", "pre-tools"}

\* C25: pre-task isolation.  A step of runPreTasks leaves the primary
\* history as it is (a completed pre-task sequence is followed by the
\* append of the user input and nothing else), and a pre-task that starts
\* has a history of exactly its system prompt and its input, or "Begin"
\* when the input is empty.
PreTaskIsolation ==
    [][PreTaskStep =>
        /\ \/ msgs' = msgs
           \/ /\ ~pre.done /\ pre'.done
              /\ msgs' = Append(msgs, Message("user", Str(txtHi), << >>, NoId))
        /\ (pre'.log # pre.log /\ Last(pre'.log).ev = "start") =>
              LET task == pre'.tasks[pre'.task] IN
              pre'.msgs = << Message("system", Str(task.SystemPrompt), << >>, NoId),
                             Message("user", Str(IF task.Input = << >> THEN preText.begin ELSE task.Input),
                                     << >>, NoId) >>]_vars

PreTaskIsolationWitness ==
    /\ pre.done
    /\ Len(pre.msgs) >= 5
    /\ pre.msgs[4].role = "tool"
    /\ msgs = NewHistory \o <<Message("user", Str(txtHi), << >>, NoId)>>

(***************************************************************************)
(* Properties of the process-wide executor, checked under SpecProcess.     *)
(***************************************************************************)
\* C26: the process-wide executor is initialised once: over any
\* interleaving of NewAgent, InitSandbox, GetExecutor, IsSandboxEnabled and
\* ExecuteShell calls of several conversations the variable is assigned at
\* most once, and all conversations get the same executor.
ExecutorInitialisedOnce ==
    /\ Cardinality({i \in 1..Len(shOut.log) : shOut.log[i].ev = "assign"}) <= 1
    /\ \A i, j \in 1..Len(shOut.log) :
         (shOut.log[i].ev = "observe" /\ shOut.log[j].ev = "observe") =>
             shOut.log[i].exec = shOut.log[j].exec

(***************************************************************************)
(* Properties of tool errors in Agent.Chat, checked under Spec.            *)
(***************************************************************************)
\* C29: a call of an unknown tool does not abort the conversation: Chat
\* appends a tool-role message with the id of the call, and the content of
\* that message carries the failure text, so that the model sees the
\* failure.
UnknownToolReported ==
    \A j \in 1..Len(msgs) : \A k \in 1..Len(msgs[j].toolCalls) :
        (msgs[j].toolCalls[k].name \notin FileTools \cup {"run_shell", "python_runtime"}
            /\ j + k <= Len(msgs)) =>
                /\ msgs[j + k].role = "tool"
                /\ msgs[j + k].toolCallId = msgs[j].toolCalls[k].id
                /\ messageContent(msgs[j + k]) # sEmpty

\* C30: a call with a malformed argument payload does not abort the turn.
\* Once it has been run (it is a call before idx) it has been processed
\* like any other call with an empty argument mapping: the approval hook
\* was invoked for it, the tool is dispatched by its name
\* (run_shell with the empty command), and its result is kept, and later
\* appended, as a tool-role message with the id of the call.
MalformedTolerated ==
    /\ \A k \in 1..Len(batch) :
         (k < idx /\ ~batch[k].arguments.valid) =>
            /\ (hooks.OnToolCall => \E a \in 1..Len(evlog) : evlog[a] = Ev("OnToolCall", k, TRUE))
            /\ \E a \in 1..Len(evlog) : evlog[a] = Ev("exec", k, TRUE)
            /\ toolResults[k].role = "tool"
            /\ toolResults[k].toolCallId = batch[k].id
            /\ batch[k].name = "run_shell"
            /\ toolResults[k].content \in
                 { Str(ExecuteShellWithSandbox(defaultExecutor, "", hooks.OnSandboxFallback, w).result.Output) :
                   w \in ChatWorlds }
    /\ \A j \in 1..Len(msgs) : \A k \in 1..Len(msgs[j].toolCalls) :
         (~msgs[j].toolCalls[k].arguments.valid /\ j + k <= Len(msgs)) =>
            /\ msgs[j + k].role = "tool"
            /\ msgs[j + k].toolCallId = msgs[j].toolCalls[k].id

\* Reached: a malformed call was approved by the hook and run in the
\* middle of a batch, and the batch went on.
MalformedToleratedWitness ==
    /\ pc = "tools"
    /\ hooks.OnToolCall
    /\ \E k \in 1..Len(batch) : ~batch[k].arguments.valid /\ k + 1 < idx

(***************************************************************************)
(* Properties of messageContent, checked under SpecContent.                *)
(***************************************************************************)
\* C31: messageContent returns the content itself when it is a string; for
\* a list of parts it returns the texts of the parts of type "text" or
\* "output_text" joined in list order (the text of the list without its
\* last part, followed by the text of the last part if that part has one
\* of the two types); for any other content and for a nil message it
\* returns the empty text.
ContentExtraction ==
    shOut.called =>
        LET m == shIn.msg
            r == shOut.result
        IN IF m = [nil |-> TRUE] THEN r = sEmpty
           ELSE IF m.content.kind = "string" THEN r = m.content.text
           ELSE IF m.content.kind = "parts"
           THEN LET ps == m.content.parts IN
                IF ps = << >> THEN r = sEmpty
                ELSE LET l == ps[Len(ps)]
                         front == messageContent(Message("assistant", Parts(SubSeq(ps, 1, Len(ps) - 1)),
                                                         << >>, NoId))
                     IN r = front \o (IF l.type = "text" \/ l.type = "output_text" THEN l.text ELSE << >>)
           ELSE r = sEmpty

\* Reached: a list with an image part between a text part and an
\* output_text part.
ContentExtractionWitness ==
    /\ shOut.called
    /\ shIn.msg # [nil |-> TRUE]
    /\ shIn.msg.content.parts = <<Part("text", txtHi), Part("image_url", txtDone), Part("output_text", txtDone)>>
    /\ shOut.result = txtHi \o txtDone

(***************************************************************************)
(* Further properties of Agent.Chat, checked under Spec.                   *)
(***************************************************************************)
\* C32: when OnToolCall returns false for a call, the tool is not run and
\* "cancelled by user" is sent as the result of that call: a tool-role
\* message with the id of the call and that text is recorded.
DeclineSendsCancelled ==
    Cancelled =>
        LET tc == batch[Last(evlog).call] IN
        /\ \A a \in 1..Len(evlog) : evlog[a] # Ev("exec", Last(evlog).call, TRUE)
        /\ \E m \in {msgs[i] : i \in 1..Len(msgs)} \cup {toolResults[i] : i \in 1..Len(toolResults)} :
             m = Message("tool", Str(sCancelledByUser), << >>, tc.id)

(***************************************************************************)
(* Properties of the prompt composer, checked under SpecCompose.           *)
(***************************************************************************)
\* C33: ComposeWithContext(base, ctx) on the enrichers e1..en shows the
\* section of e1 first and after it what the composer makes of e2..en and
\* base (so the sections appear in list order and base is last); without
\* enrichers the result is base; OSCommandsEnricher for an unknown or empty
\* OS has no section and leaves its input unchanged.
ComposeOrder ==
    shOut.called =>
        LET es == shIn.enrichers
            os == shIn.ctx.OS
            section(e) ==
                IF e = "env"
                THEN <<"## Environment", os, IF os = "darwin" THEN " (macOS)"
                                             ELSE IF os = "linux" THEN " (Linux)" ELSE "">>
                ELSE IF e = "os"
                THEN (IF os = "darwin" THEN <<"## macOS Shell Commands">>
                      ELSE IF os = "linux" THEN <<"## Linux Shell Commands">>
                      ELSE IF os = "windows" THEN <<"## Windows Shell Commands">>
                      ELSE << >>)
                ELSE IF e = "custom" THEN <<"## Project">>
                ELSE <<"## Response Format">>
        IN IF es = << >>
           THEN shOut.result = shIn.base
           ELSE /\ shOut.result = section(es[1]) \o ComposeWithContext(Tail(es), shIn.base, shIn.ctx)
                /\ Len(shOut.result) >= Len(shIn.base)
                /\ SubSeq(shOut.result, Len(shOut.result) - Len(shIn.base) + 1, Len(shOut.result)) = shIn.base

\* Reached: the chain of TestComposerChainOrder on darwin.
ComposeOrderWitness ==
    /\ shOut.called
    /\ shIn.enrichers = <<"env", "os", "output">>
    /\ shOut.result = <<"## Environment", "darwin", " (macOS)", "## macOS Shell Commands",
                        "## Response Format", "LLM prompt here">>

(***************************************************************************)
(* Further properties of the shell functions, checked under SpecShell.     *)
(***************************************************************************)
\* C34: for every result of a shell command, sandboxError = true implies
\* sandboxed = true, success = false and a non-empty reason; and the fixed
\* reason "sandbox policy violation" is never produced, neither in the
\* result returned nor in the reason handed to the fallback callback,
\* because an output classified as a denial is never empty.
DenialResultShape ==
    shOut.called =>
        LET meta == shOut.result.ExecMeta IN
        /\ meta.SandboxError =>
              /\ ~meta.IsNil
              /\ meta.Sandboxed
              /\ ~shOut.result.Success
              /\ meta.SandboxReason # << >>
              /\ shOut.result.Output # << >>
        /\ meta.SandboxReason # rPolicy
        /\ \A i \in 1..Len(shOut.log) :
              shOut.log[i].ev = "OnSandboxFallback" => shOut.log[i].reason \notin {<< >>, rPolicy}

\* Reached: a denial result returned after the callback declined.
DenialResultShapeWitness ==
    /\ shOut.called
    /\ shIn.fn = "ExecuteShellWithSandbox"
    /\ shOut.result.ExecMeta.SandboxError
    /\ HasEvent(shOut.log, "OnSandboxFallback")
    /\ shOut.result.ExecMeta.SandboxReason = rWrite

\* C35: in one call of ExecuteShellWithSandbox the fallback callback is
\* invoked at most once, and only right after a confined run of the same
\* command that was classified as a denial (never after a success or an
\* ordinary failure, never when confinement is off); the command is run at
\* most once confined and at most once unconfined, and an unconfined run
\* that follows a confined one comes after the callback approved.
FallbackOrder ==
    (shOut.called /\ shIn.fn = "ExecuteShellWithSandbox") =>
        LET log == shOut.log
            at(what) == {i \in 1..Len(log) : log[i].ev = what}
        IN
        /\ Cardinality(at("OnSandboxFallback")) <= 1
        /\ Cardinality(at("sandbox-exec")) <= 1
        /\ Cardinality(at("sh")) <= 1
        /\ at("sandbox-exec") \cup at("sh") \cup at("OnSandboxFallback") = 1..Len(log)
        /\ \A i \in 1..Len(log) : log[i].command = shIn.command
        /\ \A i \in at("OnSandboxFallback") :
              /\ i = 2 /\ log[1].ev = "sandbox-exec"
              /\ Denied
        /\ \A i \in at("sh") :
              at("sandbox-exec") # {} =>
                  /\ i = 3 /\ log[2].ev = "OnSandboxFallback"
                  /\ shIn.w.approve
        /\ defaultExecutor # "sandboxed" => log = <<Started("sh", shIn.command)>>

\* Reached: a denial, the callback approves, the command runs unconfined.
FallbackOrderWitness ==
    /\ shOut.called /\ shIn.fn = "ExecuteShellWithSandbox"
    /\ Len(shOut.log) = 3
    /\ shOut.log[3] = Started("sh", shIn.command)

(***************************************************************************)
(* Further properties of cancellation and of the history, checked under    *)
(* Spec.                                                                   *)
(***************************************************************************)
\* C36: when OnToolCall declines a call of a batch, every call before it
\* has been executed exactly once, with OnToolDone fired once for it when
\* the hook is set, and its result was held pending; the rollback restores
\* the history only, which keeps no trace of these executions.
DeclineKeepsExecutions ==
    Cancelled =>
        LET k == Last(evlog).call
            count(what, i) == Cardinality({a \in 1..Len(evlog) : evlog[a] = Ev(what, i, TRUE)})
        IN
        /\ \A i \in 1..(k - 1) :
              /\ count("exec", i) = 1
              /\ count("OnToolDone", i) = (IF hooks.OnToolDone THEN 1 ELSE 0)
              /\ toolResults[i].toolCallId = batch[i].id
        /\ Len(toolResults) = k - 1
        /\ msgs = hist
        /\ \A j \in 1..Len(msgs) : msgs[j] # msg /\ \A i \in 1..Len(toolResults) : msgs[j] # toolResults[i]

\* Reached: the third call is declined after two calls ran with both hooks.
DeclineKeepsExecutionsWitness ==
    /\ Cancelled
    /\ Last(evlog).call = 3
    /\ hooks.OnToolDone
    /\ Len(evlog) = 7

\* C37: the user input of a Chat call is never rolled back.  The first
\* step of a Chat call appends the user message to the history as it is,
\* so after a call that ended without a response in the history the next
\* user message comes directly after the earlier one; every later step of
\* the call, a cancellation, ErrEmptyResponse, ErrMaxTurnsExceeded or a
\* transport error included, keeps the history up to and including that
\* user message; and after a cancellation in the first turn the history
\* ends with it.
UserInputKept ==
    [][IF chats' # chats
       THEN msgs' = Append(msgs, Message("user", Str(txtHi), << >>, NoId))
       ELSE /\ Len(msgs') >= LastUser(msgs)
            /\ SubSeq(msgs', 1, LastUser(msgs)) = SubSeq(msgs, 1, LastUser(msgs))
            /\ (Cancelled' /\ turns' = 0) => Last(msgs') = Message("user", Str(txtHi), << >>, NoId)]_vars

\* Reached: a second Chat call is cancelled in its first turn after a call
\* that left nothing but its user message: two user messages end the
\* history.
UserInputKeptWitness ==
    /\ Cancelled
    /\ turns = 0
    /\ chats = 2
    /\ msgs[Len(msgs) - 1].role = "user"
    /\ msgs[Len(msgs)].role = "user"

\* C38: when Chat ends with ErrMaxTurnsExceeded the tools of the last batch
\* have run and their results are in the history: the history is the one
\* sent in the last request (which the model saw) followed by the last
\* assistant message and its complete batch of tool results (which the
\* model never sees in this call), and this call appended exactly
\* maxChatTurns assistant messages.
BudgetEndsAfterBatch ==
    ret.err = "ErrMaxTurnsExceeded" =>
        /\ pc = "idle"
        /\ trips = maxChatTurns
        /\ msgs = hist \o <<msg>> \o toolResults
        /\ Len(toolResults) = Len(batch) /\ Len(batch) > 0
        /\ \A i \in 1..Len(batch) : toolResults[i].role = "tool" /\ toolResults[i].toolCallId = batch[i].id
        /\ Cardinality({v \in (LastUser(msgs) + 1)..Len(msgs) : msgs[v].role = "assistant"}) = maxChatTurns
        /\ \A i \in 1..Len(batch) : \A j \in 1..Len(hist) : hist[j].toolCallId # batch[i].id

\* Reached: the tenth batch has run and Chat returned the error.
BudgetEndsAfterBatchWitness ==
    /\ ret.err = "ErrMaxTurnsExceeded"
    /\ turns = maxChatTurns
    /\ Last(msgs).role = "tool"
    /\ Len(evlog) > 0

\* C39: NewAgent builds the executor from the caller's Sandbox
\* configuration as it is when one of ReadPaths, WritePaths, ExecPaths is
\* not nil; when all three are nil it builds it from DefaultSandboxConfig,
\* so the caller's Enabled, AllowNetwork and FallbackOutsideSandbox have no
\* effect: the executor is confined wherever confinement is available, the
\* profile denies the network and the fallback is on.
NewAgentSandboxChoice ==
    shIn.fn = "NewAgent" =>
        LET cfg == shIn.cfg
            used == shIn.used
            profile == generateProfile([AllowNetwork |-> used.AllowNetwork, ReadPaths |-> used.ReadPaths.list,
                                        WritePaths |-> used.WritePaths.list, ExecPaths |-> used.ExecPaths.list])
        IN
        /\ defaultExecutor = (IF used.Enabled /\ platform THEN "sandboxed" ELSE "passthrough")
        /\ IF ~cfg.ReadPaths.IsNil \/ ~cfg.WritePaths.IsNil \/ ~cfg.ExecPaths.IsNil
           THEN used = cfg
           ELSE /\ used.Enabled = platform
                /\ defaultExecutor = (IF platform THEN "sandboxed" ELSE "passthrough")
                /\ ~used.AllowNetwork
                /\ Count(profile, sbpl.denyNetwork) = 1 /\ Count(profile, sbpl.allowNetwork) = 0
                /\ used.FallbackOutsideSandbox
                /\ Len(used.ReadPaths.list) > 0 /\ Len(used.WritePaths.list) > 0 /\ Len(used.ExecPaths.list) > 0

\* Reached: Enabled = false and AllowNetwork = true without paths, where
\* confinement is available.
NewAgentSandboxChoiceWitness ==
    /\ shIn.fn = "NewAgent"
    /\ shIn.cfg.ReadPaths.IsNil /\ shIn.cfg.WritePaths.IsNil /\ shIn.cfg.ExecPaths.IsNil
    /\ ~shIn.cfg.Enabled /\ shIn.cfg.AllowNetwork /\ ~shIn.cfg.FallbackOutsideSandbox
    /\ platform
    /\ defaultExecutor = "sandboxed"

\* C40: in runPreTasks OnPreTaskStart(name) is called once when each
\* pre-task begins and pre-tasks never overlap; OnPreTaskEnd(name) is
\* called exactly once for a pre-task that completes normally or is
\* cancelled, and is not called for a pre-task that ends by turn-budget
\* exhaustion, by an empty response or by a transport error, which leaves
\* a start without a matching end.  Every step adds to the hook calls
\* exactly the calls of the task events of the step, in their order; an
\* end follows the start of the same task with no call between them.
PreTaskHookCalls ==
    [][LET cancelled == ret'.kind = "pretask" /\ ret'.err = "ErrToolCancelled"
           events == SubSeq(pre'.log, Len(pre.log) + 1, Len(pre'.log))
           hooked == SelectSeq(events, LAMBDA e : \/ e.ev \in {"start", "done"}
                                                  \/ e.ev = "fail" /\ cancelled)
           calls == pre'.calls
       IN
       /\ Len(pre.log) <= Len(pre'.log)
       /\ Len(calls) = Len(pre.calls) + Len(hooked)
       /\ SubSeq(calls, 1, Len(pre.calls)) = pre.calls
       /\ \A i \in 1..Len(hooked) :
            calls[Len(pre.calls) + i] =
                [hook |-> IF hooked[i].ev = "start" THEN "OnPreTaskStart" ELSE "OnPreTaskEnd",
                 name |-> pre.tasks[hooked[i].task].Name]
       /\ \A i \in 1..Len(calls) :
            calls[i].hook = "OnPreTaskEnd" =>
                i > 1 /\ calls[i - 1] = [hook |-> "OnPreTaskStart", name |-> calls[i].name]
       /\ (pc' = "idle" /\ ret'.kind = "pretask" /\ ~cancelled) =>
            Last(calls) = [hook |-> "OnPreTaskStart", name |-> pre.tasks[pre'.task].Name]
       /\ (pc' \in {"pre-await", "pre-tools"}) =>
            Last(calls) = [hook |-> "OnPreTaskStart", name |-> pre.tasks[pre'.task].Name]]_vars

PreTaskHookCallsWitness ==
    /\ pc = "idle" /\ ret.kind = "pretask" /\ ret.err = "ErrEmptyResponse"
    /\ pre.task = 2
    /\ Len(pre.calls) >= 3
    /\ SubSeq(pre.calls, Len(pre.calls) - 2, Len(pre.calls)) =
         << [hook |-> "OnPreTaskStart", name |-> "explore"],
            [hook |-> "OnPreTaskEnd", name |-> "explore"],
            [hook |-> "OnPreTaskStart", name |-> "plan"] >>

====
